---- MODULE Spec2Model ----
(***************************************************************************)
(* Model of the Natural (.nl) compiler front end of @natural-lang/core:    *)
(* the token-stream Lexer (packages/core/src/lexer.ts), the token-stream   *)
(* parser with its reference extractor, and the Analyzer with its          *)
(* "did you mean" suggestions.                                             *)
(*                                                                         *)
(* A source text is a sequence of one-character strings.  One behaviour    *)
(* follows one source through parse(source) and analyze(document), and     *)
(* then through a second, independent parse/analyze of the same source.    *)
(***************************************************************************)
EXTENDS Integers, Sequences, FiniteSets, TLC

VARIABLES source, position, line, column, tokens, pc, run,
          document, definitions, references, diagnostics, firstDiagnostics,
          simName, simDefs, simResult,
          compilePc, files, compileDiagnostics, called,
          levA, levB, levResult,
          findPosition, findResult,
          documents, documentCache, lastEvent, published,
          parserText, ast, parserDiagnostics,
          enabled, textDocuments, llmDebounceTimers, pendingAnalyses, sentDiagnostics,
          validatorPc, maxRetries, attempt, currentFiles, errors, tscResult,
          validateResult, console

vars == <<source, position, line, column, tokens, pc, run,
          document, definitions, references, diagnostics, firstDiagnostics,
          simName, simDefs, simResult,
          compilePc, files, compileDiagnostics, called,
          levA, levB, levResult,
          findPosition, findResult,
          documents, documentCache, lastEvent, published,
          parserText, ast, parserDiagnostics,
          enabled, textDocuments, llmDebounceTimers, pendingAnalyses, sentDiagnostics,
          validatorPc, maxRetries, attempt, currentFiles, errors, tscResult,
          validateResult, console>>

(***************************************************************************)
(* Bounds of the model                                                     *)
(***************************************************************************)
\* a source is the concatenation of at most MaxPieces pieces
MaxPieces == 5
\* a name handed to findSimilarConcepts has at most MaxNameLen characters
MaxNameLen == 3
\* findSimilarConcepts is tried against at most MaxDefs defined names
MaxDefs == 3
MaxStrLen == 3
MaxWsPieces == 5
MaxCompilePieces == 4
MaxFindPieces == 4
MaxTextPieces == 1
MaxSectionPieces == 5
\* the analyses of the LLM awaited at a time
MaxInFlight == 1
\* the largest maxRetries of a Validator
MaxRetries == 3

\* the pieces sources are built from: two concept markers, a bare '@',
\* a lowercase letter, a space and a newline
Pieces == { <<"@", "A">>, <<"@", "B">>, <<"@">>, <<"b">>, <<" ">>, <<"\n">> }

RECURSIVE SourcesOf(_)
SourcesOf(n) ==
  IF n = 0 THEN { <<>> }
  ELSE LET S == SourcesOf(n - 1) IN S \cup { s \o p : s \in S, p \in Pieces }

Sources == SourcesOf(MaxPieces)

(***************************************************************************)
(* Character classes of the regular expressions used by the code           *)
(***************************************************************************)
UpperSeq == << "A","B","C","D","E","F","G","H","I","J","K","L","M",
               "N","O","P","Q","R","S","T","U","V","W","X","Y","Z" >>
LowerSeq == << "a","b","c","d","e","f","g","h","i","j","k","l","m",
               "n","o","p","q","r","s","t","u","v","w","x","y","z" >>
DigitSeq == << "0","1","2","3","4","5","6","7","8","9" >>

Range(s) == { s[i] : i \in DOMAIN s }

\* /[A-Z]/
IsUpper(c) == c \in Range(UpperSeq)
\* /[A-Za-z0-9_]/
IsIdent(c) == c \in Range(UpperSeq) \cup Range(LowerSeq) \cup Range(DigitSeq) \cup {"_"}

(***************************************************************************)
(* Lexer.  A cursor is the triple the Lexer keeps in its fields position,  *)
(* line and column; createPosition() copies it into a Position.            *)
(***************************************************************************)
createPosition(cur) == [line |-> cur.line, column |-> cur.column, offset |-> cur.offset]

\* '' (the empty string) past the end of the source
peek(src, cur, k) ==
  IF cur.offset + k < Len(src) THEN src[cur.offset + k + 1] ELSE ""

\* advance that does not start a new line at '\n'
advanceNoNewLine(src, cur) ==
  IF cur.offset >= Len(src) THEN cur
  ELSE [offset |-> cur.offset + 1, line |-> cur.line, column |-> cur.column + 1]

advance(src, cur) ==
  IF cur.offset >= Len(src) THEN cur
  ELSE LET char == src[cur.offset + 1]
       IN [offset |-> cur.offset + 1,
           line   |-> IF char = "\n" THEN cur.line + 1 ELSE cur.line,
           column |-> IF char = "\n" THEN 1 ELSE cur.column + 1]

\* isAtConceptStart without the column test
isAtConceptStartAnyColumn(src, cur) ==
  peek(src, cur, 0) = "@" /\ IsUpper(peek(src, cur, 1))

isAtConceptStart(src, cur) ==
  cur.column = 1 /\ peek(src, cur, 0) = "@" /\ IsUpper(peek(src, cur, 1))

\* a name loop that takes uppercase letters only
RECURSIVE scanNameLoopUpperOnly(_, _)
scanNameLoopUpperOnly(src, cur) ==
  IF cur.offset < Len(src) /\ IsUpper(peek(src, cur, 0))
  THEN scanNameLoopUpperOnly(src, advance(src, cur))
  ELSE cur

\* the while loop of scanConceptDefinition: the cursor after the name
RECURSIVE scanNameLoop(_, _)
scanNameLoop(src, cur) ==
  IF cur.offset < Len(src) /\ IsIdent(peek(src, cur, 0))
  THEN scanNameLoop(src, advance(src, cur))
  ELSE cur

scanConceptDefinition(src, cur) ==
  LET afterAt == advance(src, cur)
      endCur  == scanNameLoop(src, afterAt)
  IN [token |-> [type  |-> "ConceptDefinition",
                 value |-> SubSeq(src, afterAt.offset + 1, endCur.offset),
                 start |-> createPosition(cur),
                 end   |-> createPosition(endCur)],
      cur |-> endCur]

\* scanTextLoop with a concept check that forgets the column
RECURSIVE scanTextLoopAnyColumn(_, _)
scanTextLoopAnyColumn(src, cur) ==
  IF cur.offset < Len(src)
     /\ peek(src, cur, 0) # "\n"
     /\ ~ isAtConceptStartAnyColumn(src, cur)
  THEN scanTextLoopAnyColumn(src, advance(src, cur))
  ELSE cur

\* a text loop that stops in front of every '@' after the first character
RECURSIVE scanTextLoopStopAtMarker(_, _)
scanTextLoopStopAtMarker(src, cur) ==
  IF cur.offset < Len(src)
     /\ peek(src, cur, 0) # "\n"
     /\ ~ isAtConceptStart(src, cur)
  THEN IF peek(src, cur, 1) = "@" THEN advance(src, cur)
       ELSE scanTextLoopStopAtMarker(src, advance(src, cur))
  ELSE cur

\* the while loop of scanText: the cursor after the text
RECURSIVE scanTextLoop(_, _)
scanTextLoop(src, cur) ==
  IF cur.offset < Len(src)
     /\ peek(src, cur, 0) # "\n"
     /\ ~ isAtConceptStart(src, cur)
  THEN scanTextLoop(src, advance(src, cur))
  ELSE cur

scanText(src, cur) ==
  LET endCur == scanTextLoop(src, cur)
  IN [token |-> [type  |-> "Text",
                 value |-> SubSeq(src, cur.offset + 1, endCur.offset),
                 start |-> createPosition(cur),
                 end   |-> createPosition(endCur)],
      cur |-> endCur]

scanNewline(src, cur) ==
  LET endCur == advance(src, cur)
  IN [token |-> [type  |-> "Newline",
                 value |-> <<"\n">>,
                 start |-> createPosition(cur),
                 end   |-> createPosition(endCur)],
      cur |-> endCur]

\* a whitespace loop that leaves the cursor at column 1
RECURSIVE skipLeadingWhitespaceKeepColumn(_, _)
skipLeadingWhitespaceKeepColumn(src, cur) ==
  IF peek(src, cur, 0) \in {" ", "\t", "\r"}
  THEN skipLeadingWhitespaceKeepColumn(src, [advance(src, cur) EXCEPT !.column = 1])
  ELSE cur

\* a whitespace loop that skips spaces only
RECURSIVE skipLeadingWhitespaceSpacesOnly(_, _)
skipLeadingWhitespaceSpacesOnly(src, cur) ==
  IF peek(src, cur, 0) = " "
  THEN skipLeadingWhitespaceSpacesOnly(src, advance(src, cur))
  ELSE cur

\* a whitespace loop that skips nothing
skipLeadingWhitespaceNone(src, cur) == cur

\* the whitespace loop at the head of nextToken
RECURSIVE skipLeadingWhitespace(_, _)
skipLeadingWhitespace(src, cur) ==
  IF peek(src, cur, 0) \in {" ", "\t", "\r"}
  THEN skipLeadingWhitespace(src, advance(src, cur))
  ELSE cur

\* nextToken that skips whitespace at every column
nextTokenSkipAnyColumn(src, cur0) ==
  LET cur == skipLeadingWhitespace(src, cur0)
  IN IF cur.offset >= Len(src)
     THEN [token |-> [type |-> "EOF", value |-> <<>>,
                      start |-> createPosition(cur), end |-> createPosition(cur)],
           cur |-> cur]
     ELSE IF isAtConceptStart(src, cur) THEN scanConceptDefinition(src, cur)
     ELSE IF peek(src, cur, 0) = "\n" THEN scanNewline(src, cur)
     ELSE scanText(src, cur)

nextToken(src, cur0) ==
  LET cur == IF cur0.column = 1 THEN skipLeadingWhitespace(src, cur0) ELSE cur0
  IN IF cur.offset >= Len(src)
     THEN [token |-> [type |-> "EOF", value |-> <<>>,
                      start |-> createPosition(cur), end |-> createPosition(cur)],
           cur |-> cur]
     ELSE IF isAtConceptStart(src, cur) THEN scanConceptDefinition(src, cur)
     ELSE IF peek(src, cur, 0) = "\n" THEN scanNewline(src, cur)
     ELSE scanText(src, cur)

cursor == [offset |-> position, line |-> line, column |-> column]

(***************************************************************************)
(* Token-stream parser and reference extractor.  parse(source) builds the  *)
(* NaturalDocument from Lexer.tokenize(): one ConceptDefinition per marker *)
(* token, at most one ProseBlock per concept, and the references found in  *)
(* the block's text.                                                       *)
(***************************************************************************)
\* String.prototype.trim() removes these from both ends
IsTrimmed(c) == c \in {" ", "\t", "\r", "\n"}

RECURSIVE trimStart(_)
trimStart(s) == IF s # <<>> /\ IsTrimmed(Head(s)) THEN trimStart(Tail(s)) ELSE s

RECURSIVE trimEnd(_)
trimEnd(s) ==
  IF s # <<>> /\ IsTrimmed(s[Len(s)]) THEN trimEnd(SubSeq(s, 1, Len(s) - 1)) ELSE s

trim(s) == trimEnd(trimStart(s))

\* the end (exclusive, 1-based) of the identifier run that starts at index i
RECURSIVE identEnd(_, _)
identEnd(text, i) ==
  IF i <= Len(text) /\ IsIdent(text[i]) THEN identEnd(text, i + 1) ELSE i

\* number of '\n' in text[1..n]
RECURSIVE newlinesBefore(_, _)
newlinesBefore(text, n) ==
  IF n = 0 THEN 0
  ELSE newlinesBefore(text, n - 1) + (IF text[n] = "\n" THEN 1 ELSE 0)

\* 1-based index of the last '\n' in text[1..n], 0 when there is none
RECURSIVE lastNewlineBefore(_, _)
lastNewlineBefore(text, n) ==
  IF n = 0 THEN 0
  ELSE IF text[n] = "\n" THEN n ELSE lastNewlineBefore(text, n - 1)

\* the Position of the character at 1-based index i of a block's text:
\* line = block start line + newlines before it; the column restarts at 1
\* after the last newline and continues the block's start column before it
positionInBlock(text, blockStart, i) ==
  LET nl   == newlinesBefore(text, i - 1)
      last == lastNewlineBefore(text, i - 1)
  IN [line   |-> blockStart.line + nl,
      column |-> IF nl = 0 THEN blockStart.column + (i - 1) ELSE i - last,
      offset |-> blockStart.offset + (i - 1)]

\* the global scan for /@([A-Z][A-Za-z0-9_]*)/ from index i on
RECURSIVE extractReferencesFrom(_, _, _)
extractReferencesFrom(text, blockStart, i) ==
  IF i > Len(text) THEN <<>>
  ELSE IF text[i] = "@" /\ i + 1 <= Len(text) /\ IsUpper(text[i + 1])
  THEN LET e == identEnd(text, i + 1)
           startPos == positionInBlock(text, blockStart, i)
           endPos   == [line   |-> startPos.line,
                        column |-> startPos.column + (e - i),
                        offset |-> startPos.offset + (e - i)]
       IN << [type |-> "ConceptReference",
              name |-> SubSeq(text, i + 1, e - 1),
              location |-> [range |-> [start |-> startPos, end |-> endPos]]] >>
          \o extractReferencesFrom(text, blockStart, e)
  ELSE extractReferencesFrom(text, blockStart, i + 1)

extractReferences(text, blockStart) == extractReferencesFrom(text, blockStart, 1)

\* index of the first token at or after i that is neither Text nor Newline
RECURSIVE proseEnd(_, _)
proseEnd(toks, i) ==
  IF i <= Len(toks) /\ toks[i].type \in {"Text", "Newline"}
  THEN proseEnd(toks, i + 1) ELSE i

\* concatenation of the values of toks[i..j-1]
RECURSIVE joinValues(_, _, _)
joinValues(toks, i, j) ==
  IF i >= j THEN <<>> ELSE toks[i].value \o joinValues(toks, i + 1, j)

\* the concept whose marker is toks[i]; next is the index parsing resumes at
parseConcept(toks, i) ==
  LET marker == toks[i]
      j == IF i + 1 <= Len(toks) /\ toks[i + 1].type = "Newline" THEN i + 2 ELSE i + 1
      k == proseEnd(toks, j)
      text == trim(joinValues(toks, j, k))
      blockRange == [start |-> toks[j].start, end |-> toks[k - 1].end]
      prose == IF text = <<>> THEN <<>>
               ELSE << [type |-> "ProseBlock",
                        text |-> text,
                        references |-> extractReferences(text, blockRange.start),
                        location |-> [range |-> blockRange]] >>
      endPos == IF prose = <<>> THEN marker.end ELSE blockRange.end
  IN [concept |-> [type |-> "ConceptDefinition",
                   name |-> marker.value,
                   prose |-> prose,
                   location |-> [range |-> [start |-> marker.start, end |-> endPos]]],
      next |-> k]

RECURSIVE parseConcepts(_, _)
parseConcepts(toks, i) ==
  IF i > Len(toks) \/ toks[i].type = "EOF" THEN <<>>
  ELSE IF toks[i].type # "ConceptDefinition" THEN parseConcepts(toks, i + 1)
  ELSE LET r == parseConcept(toks, i) IN << r.concept >> \o parseConcepts(toks, r.next)

parseTokens(toks) ==
  [type |-> "NaturalDocument",
   concepts |-> parseConcepts(toks, 1),
   location |-> [range |-> [start |-> toks[1].start, end |-> toks[Len(toks)].end]]]

(***************************************************************************)
(* Analyzer.  A JavaScript Map is a sequence of [key, value] entries in    *)
(* insertion order.                                                        *)
(***************************************************************************)
MapHas(m, k) == \E i \in DOMAIN m : m[i].key = k

\* Map.prototype.get: << value >>, or << >> for undefined when the key is absent
MapGet(m, k) ==
  IF MapHas(m, k) THEN << m[CHOOSE i \in DOMAIN m : m[i].key = k].value >> ELSE << >>

\* Map.prototype.set: replaces in place, or appends a new key at the end
MapSet(m, k, v) ==
  IF MapHas(m, k)
  THEN [i \in DOMAIN m |-> IF m[i].key = k THEN [key |-> k, value |-> v] ELSE m[i]]
  ELSE Append(m, [key |-> k, value |-> v])

MapKeys(m) == [i \in DOMAIN m |-> m[i].key]

\* String.prototype.toLowerCase on one character
toLowerChar(c) ==
  IF IsUpper(c) THEN LowerSeq[CHOOSE i \in DOMAIN UpperSeq : UpperSeq[i] = c] ELSE c

toLowerCase(s) == [i \in DOMAIN s |-> toLowerChar(s[i])]

\* the k-th smallest element of a set of numbers
Nth(S, k) == CHOOSE x \in S : Cardinality({ y \in S : y <= x }) = k

Min2(x, y) == IF x <= y THEN x ELSE y

\* levenshteinDistance in which a substitution costs 2
levenshteinDistanceSubstitutionTwo(a, b) ==
  LET matrix[i \in 0..Len(b), j \in 0..Len(a)] ==
        IF i = 0 THEN j
        ELSE IF j = 0 THEN i
        ELSE IF b[i] = a[j] THEN matrix[i - 1, j - 1]
        ELSE Min2(matrix[i - 1, j - 1] + 2,
                  Min2(matrix[i, j - 1] + 1, matrix[i - 1, j] + 1))
  IN matrix[Len(b), Len(a)]

\* the matrix of levenshteinDistance: rows 0..b.length, columns 0..a.length
levenshteinDistance(a, b) ==
  LET matrix[i \in 0..Len(b), j \in 0..Len(a)] ==
        IF i = 0 THEN j
        ELSE IF j = 0 THEN i
        ELSE IF b[i] = a[j] THEN matrix[i - 1, j - 1]
        ELSE Min2(matrix[i - 1, j - 1] + 1,
                  Min2(matrix[i, j - 1] + 1, matrix[i - 1, j] + 1))
  IN matrix[Len(b), Len(a)]

\* Array.prototype.sort((a, b) => a.distance - b.distance): stable
RECURSIVE insertByDistance(_, _)
insertByDistance(sorted, c) ==
  IF sorted = <<>> THEN << c >>
  ELSE IF Head(sorted).distance <= c.distance
  THEN << Head(sorted) >> \o insertByDistance(Tail(sorted), c)
  ELSE << c >> \o sorted

RECURSIVE sortByDistance(_)
sortByDistance(cs) ==
  IF cs = <<>> THEN <<>>
  ELSE insertByDistance(sortByDistance(SubSeq(cs, 1, Len(cs) - 1)), cs[Len(cs)])

\* distance <= Math.min(3, name.length / 2), the division not rounded
withinThreshold(name, distance) == distance <= 3 /\ 2 * distance <= Len(name)

\* similarCandidates that pushes the lowercased name it compared
RECURSIVE similarCandidatesLowerCase(_, _, _)
similarCandidatesLowerCase(name, keys, i) ==
  IF i > Len(keys) THEN <<>>
  ELSE LET distance == levenshteinDistance(toLowerCase(name), toLowerCase(keys[i]))
       IN (IF withinThreshold(name, distance) /\ distance > 0
           THEN << [name |-> toLowerCase(keys[i]), distance |-> distance] >> ELSE <<>>)
          \o similarCandidatesLowerCase(name, keys, i + 1)

RECURSIVE similarCandidates(_, _, _)
similarCandidates(name, keys, i) ==
  IF i > Len(keys) THEN <<>>
  ELSE LET distance == levenshteinDistance(toLowerCase(name), toLowerCase(keys[i]))
       IN (IF withinThreshold(name, distance) /\ distance > 0
           THEN << [name |-> keys[i], distance |-> distance] >> ELSE <<>>)
          \o similarCandidates(name, keys, i + 1)

\* findSimilarConcepts, given the keys of the definitions map in map order
findSimilarConcepts(name, keys) ==
  LET sorted == sortByDistance(similarCandidates(name, keys, 1))
      top == SubSeq(sorted, 1, Min2(3, Len(sorted)))
  IN [i \in DOMAIN top |-> top[i].name]

\* String(n), as the sequence of its decimal digits
RECURSIVE decimalString(_)
decimalString(n) ==
  IF n < 10 THEN << n >> ELSE decimalString(n \div 10) \o << n % 10 >>

\* s sorts before t in the order of Array.prototype.sort() without comparator
RECURSIVE stringLess(_, _)
stringLess(s, t) ==
  IF t = <<>> THEN FALSE
  ELSE IF s = <<>> THEN TRUE
  ELSE IF Head(s) # Head(t) THEN Head(s) < Head(t)
  ELSE stringLess(Tail(s), Tail(t))

\* [...new Set([x, y])].sort()
sortedLineSet(x, y) ==
  IF x = y THEN << x >>
  ELSE IF stringLess(decimalString(y), decimalString(x)) THEN << y, x >>
  ELSE << x, y >>

\* a new Analyzer whose diagnostics array is the one of the Analyzer before
newAnalyzerSharedDiagnostics ==
  [definitions |-> <<>>, references |-> <<>>, diagnostics |-> diagnostics,
   threw |-> FALSE]

\* the fields of a new Analyzer
newAnalyzer == [definitions |-> <<>>, references |-> <<>>, diagnostics |-> <<>>,
                threw |-> FALSE]

\* collectDefinition where a later definition replaces the one in the map
collectDefinitionLastWins(concept, st) ==
  LET name == concept.name
  IN IF MapHas(st.definitions, name)
     THEN LET existing == MapGet(st.definitions, name)[1]
              lines == sortedLineSet(existing.location.range.start.line,
                                     concept.location.range.start.line)
          IN [st EXCEPT !.diagnostics =
                Append(@, [severity |-> "error",
                           message  |-> << "Duplicate concept definition", name, lines >>,
                           location |-> concept.location,
                           code     |-> "duplicate-definition"]),
                        !.definitions = MapSet(@, name, concept)]
     ELSE [st EXCEPT !.definitions = MapSet(@, name, concept)]

\* one iteration of the loop of collectDefinitions
collectDefinition(concept, st) ==
  LET name == concept.name
  IN IF MapHas(st.definitions, name)
     THEN LET existing == MapGet(st.definitions, name)[1]
              lines == sortedLineSet(existing.location.range.start.line,
                                     concept.location.range.start.line)
          IN [st EXCEPT !.diagnostics =
                Append(@, [severity |-> "error",
                           message  |-> << "Duplicate concept definition", name, lines >>,
                           location |-> concept.location,
                           code     |-> "duplicate-definition"])]
     ELSE [st EXCEPT !.definitions = MapSet(@, name, concept)]

RECURSIVE collectDefinitionsFrom(_, _, _)
collectDefinitionsFrom(concepts, i, st) ==
  IF i > Len(concepts) THEN st
  ELSE collectDefinitionsFrom(concepts, i + 1, collectDefinition(concepts[i], st))

collectDefinitions(doc, st) == collectDefinitionsFrom(doc.concepts, 1, st)

\* every reference of the document, in the order of the three nested loops
RECURSIVE blockReferences(_, _)
blockReferences(prose, i) ==
  IF i > Len(prose) THEN <<>>
  ELSE prose[i].references \o blockReferences(prose, i + 1)

RECURSIVE documentReferences(_, _)
documentReferences(concepts, i) ==
  IF i > Len(concepts) THEN <<>>
  ELSE blockReferences(concepts[i].prose, 1) \o documentReferences(concepts, i + 1)

\* the body of the innermost loop of collectReferences, without the
\* creation of the empty list
collectReferenceNoInit(ref, st) ==
  LET list == MapGet(st.references, ref.name)
  IN IF list = << >> THEN [st EXCEPT !.threw = TRUE]
     ELSE [st EXCEPT !.references = MapSet(@, ref.name, Append(list[1], ref))]

\* the body of the innermost loop of collectReferences with unshift in
\* place of push
collectReferenceUnshift(ref, st) ==
  LET withList == IF ~ MapHas(st.references, ref.name)
                  THEN MapSet(st.references, ref.name, <<>>)
                  ELSE st.references
      list == MapGet(withList, ref.name)
  IN IF list = << >> THEN [st EXCEPT !.threw = TRUE]
     ELSE [st EXCEPT !.references = MapSet(withList, ref.name, << ref >> \o list[1])]

\* the body of the innermost loop of collectReferences; get(name)!.push(ref)
\* throws a TypeError when get returns undefined
collectReference(ref, st) ==
  LET withList == IF ~ MapHas(st.references, ref.name)
                  THEN MapSet(st.references, ref.name, <<>>)
                  ELSE st.references
      list == MapGet(withList, ref.name)
  IN IF list = << >> THEN [st EXCEPT !.threw = TRUE]
     ELSE [st EXCEPT !.references = MapSet(withList, ref.name, Append(list[1], ref))]

RECURSIVE collectReferencesFrom(_, _, _)
collectReferencesFrom(refs, i, st) ==
  IF i > Len(refs) \/ st.threw THEN st
  ELSE collectReferencesFrom(refs, i + 1, collectReference(refs[i], st))

\* the references of the document that do not name the concept they are in
RECURSIVE foreignReferences(_, _)
foreignReferences(concepts, i) ==
  IF i > Len(concepts) THEN <<>>
  ELSE LET refs == blockReferences(concepts[i].prose, 1)
           isForeign(ref) == ref.name # concepts[i].name
       IN SelectSeq(refs, isForeign) \o foreignReferences(concepts, i + 1)

\* collectReferences that leaves out a concept's references to itself
collectReferencesNoSelf(doc, st) ==
  collectReferencesFrom(foreignReferences(doc.concepts, 1), 1, st)

collectReferences(doc, st) ==
  collectReferencesFrom(documentReferences(doc.concepts, 1), 1, st)

undefinedReferenceDiagnostic(name, suggestions, ref) ==
  [severity |-> "error",
   message  |-> << "Undefined concept", name, suggestions >>,
   location |-> ref.location,
   code     |-> "undefined-reference"]

\* undefinedDiagnosticsOf that reports a name once, at its first reference
undefinedDiagnosticsOncePerName(entry, defs) ==
  IF ~ MapHas(defs, entry.key)
  THEN << undefinedReferenceDiagnostic(entry.key,
                                       findSimilarConcepts(entry.key, MapKeys(defs)),
                                       entry.value[1]) >>
  ELSE <<>>

\* the diagnostics of one entry of the references map
undefinedDiagnosticsOf(entry, defs) ==
  IF ~ MapHas(defs, entry.key)
  THEN LET suggestions == findSimilarConcepts(entry.key, MapKeys(defs))
       IN [i \in DOMAIN entry.value |->
             undefinedReferenceDiagnostic(entry.key, suggestions, entry.value[i])]
  ELSE <<>>

RECURSIVE detectUndefinedFrom(_, _, _)
detectUndefinedFrom(refMap, i, defs) ==
  IF i > Len(refMap) THEN <<>>
  ELSE undefinedDiagnosticsOf(refMap[i], defs) \o detectUndefinedFrom(refMap, i + 1, defs)

detectUndefinedReferences(st) ==
  [st EXCEPT !.diagnostics = @ \o detectUndefinedFrom(st.references, 1, st.definitions)]

unusedConceptDiagnostic(entry) ==
  [severity |-> "warning",
   message  |-> << "Unused concept", entry.key >>,
   location |-> entry.value.location,
   code     |-> "unused-concept"]

\* detectUnusedFrom that looks at the first definition only
detectUnusedFromFirstOnly(defMap, i, refMap) ==
  IF i > Len(defMap) \/ i > 1 THEN <<>>
  ELSE IF ~ MapHas(refMap, defMap[i].key)
       THEN << unusedConceptDiagnostic(defMap[i]) >> ELSE <<>>

RECURSIVE detectUnusedFrom(_, _, _)
detectUnusedFrom(defMap, i, refMap) ==
  IF i > Len(defMap) THEN <<>>
  ELSE (IF ~ MapHas(refMap, defMap[i].key)
        THEN << unusedConceptDiagnostic(defMap[i]) >> ELSE <<>>)
       \o detectUnusedFrom(defMap, i + 1, refMap)

\* detectUnusedConcepts that puts its warnings in front of the errors
detectUnusedConceptsUnshift(st) ==
  [st EXCEPT !.diagnostics = detectUnusedFrom(st.definitions, 1, st.references) \o @]

detectUnusedConcepts(st) ==
  [st EXCEPT !.diagnostics = @ \o detectUnusedFrom(st.definitions, 1, st.references)]

analyzer == [definitions |-> definitions, references |-> references,
             diagnostics |-> diagnostics, threw |-> pc = "error"]

(***************************************************************************)
(* The compiler: compile(source) after its parse and its core analysis.    *)
(* The files map holds, for each path, the name of the generator that      *)
(* wrote it.                                                               *)
(***************************************************************************)
Whitespace == {" ", "\t", "\n", "\r"}

\* the characters of s from index i on are those of w
includesAt(s, w, i) ==
  i >= 1 /\ i + Len(w) - 1 <= Len(s) /\ SubSeq(s, i, i + Len(w) - 1) = w

includes(s, w) == \E i \in 1..Len(s) : includesAt(s, w, i)

\* /API|Endpoint|Route/i.test(name)
isAPIDefinition(name) ==
  LET lower == toLowerCase(name)
  IN \/ includes(lower, <<"a", "p", "i">>)
     \/ includes(lower, <<"e", "n", "d", "p", "o", "i", "n", "t">>)
     \/ includes(lower, <<"r", "o", "u", "t", "e">>)

HttpMethods ==
  { <<"g", "e", "t">>, <<"p", "o", "s", "t">>, <<"p", "u", "t">>,
    <<"p", "a", "t", "c", "h">>, <<"d", "e", "l", "e", "t", "e">> }

\* routePattern has a match in text: a method, whitespace, a path that
\* starts with "/", a dash, and a description.  Of the three dashes of the
\* pattern only the ASCII one is in the alphabet of the model.
routePatternMatches(text) ==
  LET lower == toLowerCase(text)
      n == Len(text)
  IN \E m \in HttpMethods : \E i \in 1..n :
       /\ includesAt(lower, m, i)
       /\ \E s \in (i + Len(m) + 1)..n :
            /\ \A x \in (i + Len(m))..(s - 1) : text[x] \in Whitespace
            /\ text[s] = "/"
            /\ \E e \in (s + 1)..n :
                 /\ \A x \in (s + 1)..e : text[x] \notin Whitespace
                 /\ \E d \in (e + 1)..n :
                      /\ \A x \in (e + 1)..(d - 1) : text[x] \in Whitespace
                      /\ text[d] = "-"
                      /\ \E c \in (d + 1)..n :
                           /\ \A x \in (d + 1)..(c - 1) : text[x] \in Whitespace
                           /\ text[c] \notin {".", "\n"}

\* one entry for each prose block of the concept in which routePattern
\* matches
extractRoutes(concept) ==
  LET matching == { p \in DOMAIN concept.prose : routePatternMatches(trim(concept.prose[p].text)) }
  IN [k \in 1..Cardinality(matching) |-> [concept |-> concept.name, block |-> Nth(matching, k)]]

RECURSIVE analyzeFrom(_, _, _)
analyzeFrom(concepts, i, result) ==
  IF i > Len(concepts) THEN result
  ELSE LET concept == concepts[i]
       IN analyzeFrom(concepts, i + 1,
            IF isAPIDefinition(concept.name)
            THEN [result EXCEPT !.routes = @ \o extractRoutes(concept)]
            ELSE [result EXCEPT !.entities = MapSet(@, concept.name, concept.name)])

\* analyze(doc) of the compiler: the entities and the routes of the document
analyze(doc) == analyzeFrom(doc.concepts, 1, [entities |-> <<>>, routes |-> <<>>])

\* the location every diagnostic of compile carries
originLocation ==
  LET origin == [line |-> 1, column |-> 1, offset |-> 0]
  IN [range |-> [start |-> origin, end |-> origin]]

compilerDiagnostic(severity, message) ==
  [severity |-> severity, message |-> message, location |-> originLocation]

\* .every in place of .some
hasErrorsEvery(coreDiagnostics) ==
  \A i \in DOMAIN coreDiagnostics : coreDiagnostics[i].severity = "error"

hasErrors(coreDiagnostics) ==
  \E i \in DOMAIN coreDiagnostics : coreDiagnostics[i].severity = "error"

\* the files map and the diagnostics after templateBasedGeneration returns
templateBasedGeneration(doc, files0, diagnostics0) ==
  LET analysis == analyze(doc)
      withTypes == IF analysis.entities # <<>>
                   THEN MapSet(MapSet(files0, "src/types.ts", "generateTypeScriptInterfaces"),
                               "src/schemas.ts", "generateZodSchemas")
                   ELSE files0
      withRoutes == IF analysis.routes # <<>>
                    THEN MapSet(MapSet(withTypes, "src/routes.ts", "generateExpressRoutes"),
                                "src/index.ts", "generateMainFile")
                    ELSE withTypes
      withProject == MapSet(MapSet(MapSet(MapSet(withRoutes,
                       "package.json", "generatePackageJson"),
                       "tsconfig.json", "generateTsConfig"),
                       "README.md", "generateReadme"),
                       ".gitignore", "literal")
  IN [files |-> withProject,
      diagnostics |-> Append(diagnostics0,
                        compilerDiagnostic("info", <<"Code generated using template-based heuristics">>))]

\* the files an LLM generation can return
LLMFiles == { <<>>, << [key |-> "src/app.ts", value |-> "generateWithLLM"] >> }

(***************************************************************************)
(* parse(source) and analyze(document) as functions, for the callers that  *)
(* run them in one step.                                                   *)
(***************************************************************************)
\* the do-while loop of Lexer.tokenize
RECURSIVE tokenizeFrom(_, _)
tokenizeFrom(src, cur) ==
  LET r == nextToken(src, cur)
  IN IF r.token.type = "EOF" THEN << r.token >>
     ELSE << r.token >> \o tokenizeFrom(src, r.cur)

tokenize(src) == tokenizeFrom(src, [offset |-> 0, line |-> 1, column |-> 1])

parse(src) == parseTokens(tokenize(src))

\* analyze(document) of the core: the diagnostics of a new Analyzer's run
analyzeCore(doc) ==
  detectUnusedConcepts(
    detectUndefinedReferences(
      collectReferences(doc, collectDefinitions(doc, newAnalyzer)))).diagnostics

(***************************************************************************)
(* The language server: the cache of parsed documents.  documents is the   *)
(* text document manager: << text >> for an open document, << >> for one   *)
(* that is not open.                                                       *)
(***************************************************************************)
Uris == {"file:///a.nl", "file:///b.nl"}

\* Map.prototype.delete
MapDelete(m, k) == SelectSeq(m, LAMBDA entry : entry.key # k)

\* parseDocument that keeps the entry a URI already has
parseDocumentKeepEntry(cache, uri, text) ==
  IF MapHas(cache, uri) THEN cache ELSE MapSet(cache, uri, parse(text))

\* the cache after parseDocument(textDocument)
parseDocument(cache, uri, text) == MapSet(cache, uri, parse(text))

(***************************************************************************)
(* The language server: findConceptAtPosition(doc, position), which gives  *)
(* << result >>, or << >> for null.                                        *)
(***************************************************************************)
\* the test of findConceptAtPosition on a range
inRange(range, l, c) ==
  /\ l >= range.start.line
  /\ l <= range.end.line
  /\ c >= range.start.column
  /\ c <= range.end.column

RECURSIVE findConceptFrom(_, _, _, _)
findConceptFrom(concepts, i, l, c) ==
  IF i > Len(concepts) THEN << >>
  ELSE LET concept == concepts[i]
           range == concept.location.range
           refs == blockReferences(concept.prose, 1)
           hits == { r \in DOMAIN refs : inRange(refs[r].location.range, l, c) }
       IN IF inRange(range, l, c) /\ l = range.start.line
          THEN << [type |-> "definition", name |-> concept.name, location |-> range] >>
          ELSE IF hits # {}
          THEN LET ref == refs[Nth(hits, 1)]
               IN << [type |-> "reference", name |-> ref.name, location |-> ref.location.range] >>
          ELSE findConceptFrom(concepts, i + 1, l, c)

findConceptAtPosition(doc, lspPosition) ==
  findConceptFrom(doc.concepts, 1, lspPosition.line + 1, lspPosition.character + 1)

(***************************************************************************)
(* The section-splitting parser (class Parser).  Lines and characters are  *)
(* 0-indexed, as in the code.                                              *)
(***************************************************************************)
\* the length of textBefore in extractConcepts
DefinitionWindow == 20

Max2(x, y) == IF x >= y THEN x ELSE y

\* String.prototype.split("\n")
RECURSIVE splitLines(_)
splitLines(t) ==
  IF \A i \in DOMAIN t : t[i] # "\n" THEN << t >>
  ELSE LET i == Nth({ j \in DOMAIN t : t[j] = "\n" }, 1)
       IN << SubSeq(t, 1, i - 1) >> \o splitLines(SubSeq(t, i + 1, Len(t)))

\* Array.prototype.join("\n")
RECURSIVE joinLines(_)
joinLines(sectionLines) ==
  IF sectionLines = <<>> THEN <<>>
  ELSE IF Len(sectionLines) = 1 THEN sectionLines[1]
  ELSE sectionLines[1] \o <<"\n">> \o joinLines(Tail(sectionLines))

\* s ends with w, and no word character stands in front of w
endsWithWord(s, w) ==
  /\ Len(s) >= Len(w)
  /\ SubSeq(s, Len(s) - Len(w) + 1, Len(s)) = w
  /\ (Len(s) > Len(w) => ~ IsIdent(s[Len(s) - Len(w)]))

DefinitionKeywords ==
  { <<"i", "s">>, <<"a", "r", "e">>, <<"m", "e", "a", "n", "s">>,
    <<"d", "e", "f", "i", "n", "e">>, <<"d", "e", "f", "i", "n", "e", "s">>,
    <<"r", "e", "p", "r", "e", "s", "e", "n", "t">>,
    <<"r", "e", "p", "r", "e", "s", "e", "n", "t", "s">>,
    <<"r", "e", "f", "e", "r", " ", "t", "o">>,
    <<"r", "e", "f", "e", "r", "s", " ", "t", "o">> }

\* definitionKeywords.test(textBefore)
definitionKeywords(textBefore) ==
  LET head == toLowerCase(trimEnd(textBefore))
  IN \E w \in DefinitionKeywords : endsWithWord(head, w)

isLikelyDefinition(textBefore) ==
  \/ trim(textBefore) = <<>>
  \/ definitionKeywords(textBefore)

\* the index of the last character of the name that starts at index j
RECURSIVE conceptNameEnd(_, _)
conceptNameEnd(t, j) ==
  IF j + 1 <= Len(t) /\ IsIdent(t[j + 1]) THEN conceptNameEnd(t, j + 1) ELSE j

\* the Concept of the match of conceptRegex at index i of the section text
conceptAt(t, i, startLine) ==
  LET conceptName == SubSeq(t, i + 1, conceptNameEnd(t, i + 1))
      newlines == { j \in 1..(i - 1) : t[j] = "\n" }
      lastNewline == IF newlines = {} THEN 0 ELSE Nth(newlines, Cardinality(newlines))
      l == startLine + Cardinality(newlines)
      character == i - 1 - lastNewline
      textBefore == SubSeq(t, Max2(1, i - DefinitionWindow), i - 1)
  IN [name |-> conceptName,
      type |-> IF isLikelyDefinition(textBefore) THEN "definition" ELSE "reference",
      position |-> [start |-> [line |-> l, character |-> character],
                    end |-> [line |-> l, character |-> character + Len(conceptName) + 1]]]

extractConcepts(t, startLine) ==
  LET matches == { i \in 1..(Len(t) - 1) : t[i] = "@" /\ IsUpper(t[i + 1]) }
  IN [k \in 1..Cardinality(matches) |-> conceptAt(t, Nth(matches, k), startLine)]

createSection(sectionLines, startLine) ==
  LET t == joinLines(sectionLines)
      endLine == startLine + Len(sectionLines) - 1
      endChar == Len(sectionLines[Len(sectionLines)])
  IN [text |-> t,
      range |-> [start |-> [line |-> startLine, character |-> 0],
                 end |-> [line |-> endLine, character |-> endChar]],
      concepts |-> extractConcepts(t, startLine)]

\* buildAST with the section boundary at empty lines only, so that a line of
\* blanks is a line of a section
RECURSIVE buildASTFromEmptyLinesOnly(_, _, _)
buildASTFromEmptyLinesOnly(allLines, i, st) ==
  IF i >= Len(allLines)
  THEN IF st.currentSection # <<>>
       THEN Append(st.sections, createSection(st.currentSection, st.sectionStartLine))
       ELSE st.sections
  ELSE LET l == allLines[i + 1]
       IN buildASTFromEmptyLinesOnly(allLines, i + 1,
            IF l = <<>>
            THEN [sections |-> IF st.currentSection # <<>>
                               THEN Append(st.sections,
                                      createSection(st.currentSection, st.sectionStartLine))
                               ELSE st.sections,
                  currentSection |-> <<>>,
                  sectionStartLine |-> i + 1]
            ELSE [st EXCEPT !.currentSection = Append(@, l)])

\* the loop of buildAST from line i (0-indexed) on
RECURSIVE buildASTFrom(_, _, _)
buildASTFrom(allLines, i, st) ==
  IF i >= Len(allLines)
  THEN IF st.currentSection # <<>>
       THEN Append(st.sections, createSection(st.currentSection, st.sectionStartLine))
       ELSE st.sections
  ELSE LET l == allLines[i + 1]
       IN buildASTFrom(allLines, i + 1,
            IF trim(l) = <<>>
            THEN [sections |-> IF st.currentSection # <<>>
                               THEN Append(st.sections,
                                      createSection(st.currentSection, st.sectionStartLine))
                               ELSE st.sections,
                  currentSection |-> <<>>,
                  sectionStartLine |-> i + 1]
            ELSE [st EXCEPT !.currentSection = Append(@, l)])

buildAST(t) ==
  [sections |-> buildASTFrom(splitLines(t), 0,
                  [sections |-> <<>>, currentSection |-> <<>>, sectionStartLine |-> 0])]

\* the inner loop of generateDiagnostics over the concepts of a section:
\* definitions, references and the duplicate warnings
RECURSIVE collectConcepts(_, _, _)
collectConcepts(concepts, i, st) ==
  IF i > Len(concepts) THEN st
  ELSE LET concept == concepts[i]
       IN collectConcepts(concepts, i + 1,
            IF concept.type = "definition"
            THEN IF MapHas(st.definitions, concept.name)
                 THEN [st EXCEPT !.diagnostics =
                         Append(@, [range |-> concept.position,
                                    message |-> <<"Duplicate definition of concept", concept.name>>,
                                    severity |-> "warning"])]
                 ELSE [st EXCEPT !.definitions = MapSet(@, concept.name, concept.position)]
            ELSE LET list == IF MapHas(st.references, concept.name)
                             THEN MapGet(st.references, concept.name)[1] ELSE <<>>
                 IN [st EXCEPT !.references =
                       MapSet(@, concept.name, Append(list, concept.position))])

\* the first loop of generateDiagnostics, over the sections
RECURSIVE collectSections(_, _, _)
collectSections(sections, i, st) ==
  IF i > Len(sections) THEN st
  ELSE LET section == sections[i]
           checked == IF trim(section.text) = <<>>
                      THEN [st EXCEPT !.diagnostics =
                              Append(@, [range |-> section.range,
                                         message |-> <<"Empty section">>,
                                         severity |-> "info"])]
                      ELSE st
       IN collectSections(sections, i + 1, collectConcepts(section.concepts, 1, checked))

\* the second loop of generateDiagnostics: the undefined references
RECURSIVE undefinedConceptReferences(_, _, _)
undefinedConceptReferences(refMap, i, defs) ==
  IF i > Len(refMap) THEN <<>>
  ELSE (IF ~ MapHas(defs, refMap[i].key)
        THEN [k \in DOMAIN refMap[i].value |->
                [range |-> refMap[i].value[k],
                 message |-> <<"Undefined concept reference", refMap[i].key>>,
                 severity |-> "error"]]
        ELSE <<>>)
       \o undefinedConceptReferences(refMap, i + 1, defs)

generateDiagnostics(tree) ==
  LET st == collectSections(tree.sections, 1,
              [definitions |-> <<>>, references |-> <<>>, diagnostics |-> <<>>])
  IN st.diagnostics \o undefinedConceptReferences(st.references, 1, st.definitions)

(***************************************************************************)
(* The language server with the LLM analysis: validateDocument sends the   *)
(* static diagnostics of the section-splitting parser at once and sets a   *)
(* debounce timer whose callback awaits the LLM and then sends the static  *)
(* diagnostics of its closure together with those of the LLM.              *)
(***************************************************************************)
\* parse(text) of the section-splitting parser
coreParse(t) == [ast |-> buildAST(t), diagnostics |-> generateDiagnostics(buildAST(t))]

\* the DiagnosticSeverity of a severity of the parser or of the LLM
lspSeverity(severity) ==
  IF severity = "error" THEN "DiagnosticSeverity.Error"
  ELSE IF severity = "warning" THEN "DiagnosticSeverity.Warning"
  ELSE "DiagnosticSeverity.Information"

\* the static diagnostics validateDocument computes from the text
staticDiagnostics(t) ==
  LET parsed == coreParse(t).diagnostics
  IN [k \in DOMAIN parsed |->
        [severity |-> lspSeverity(parsed[k].severity),
         range |-> [start |-> [line |-> parsed[k].range.start.line,
                               character |-> parsed[k].range.start.character],
                    end |-> [line |-> parsed[k].range.end.line,
                             character |-> parsed[k].range.end.character]],
         message |-> parsed[k].message,
         source |-> "natural-static"]]

\* the diagnostics the timer callback makes of the result of the LLM
llmDiagnosticsOf(llmResult) ==
  [k \in DOMAIN llmResult |->
     [severity |-> lspSeverity(llmResult[k].severity),
      range |-> [start |-> [line |-> Max2(0, llmResult[k].line - 1), character |-> 0],
                 end |-> [line |-> Max2(0, llmResult[k].line - 1),
                          character |-> "Number.MAX_VALUE"]],
      message |-> llmResult[k].message,
      source |-> "natural-llm"]]

(***************************************************************************)
(* The program: parse(source) followed by analyze(document), run twice on  *)
(* the same source.                                                        *)
(***************************************************************************)
NoDocument == [type |-> "NaturalDocument", concepts |-> <<>>]

\* compile has not come back from parse and the core analysis
NoCompile ==
  /\ compilePc = "analyzeCore"
  /\ files = <<>> /\ compileDiagnostics = <<>> /\ called = {}

\* no call of findConceptAtPosition
NoFind == findPosition = [line |-> 0, character |-> 0] /\ findResult = << >>

findVars == <<findPosition, findResult>>

\* the language server has seen no event
NoServer ==
  /\ documents = [uri \in Uris |-> << >>]
  /\ documentCache = <<>>
  /\ lastEvent = [uri \in Uris |-> "none"]
  /\ published = [uri \in Uris |-> << >>]

serverVars == <<documents, documentCache, lastEvent, published>>

\* no call of the section-splitting parser
NoParser == parserText = <<>> /\ ast = [sections |-> <<>>] /\ parserDiagnostics = <<>>

parserVars == <<parserText, ast, parserDiagnostics>>

\* the language server with the LLM analysis has seen no event
NoLLMServer ==
  /\ enabled = FALSE
  /\ textDocuments = [uri \in Uris |-> << >>]
  /\ llmDebounceTimers = [uri \in Uris |-> << >>]
  /\ pendingAnalyses = <<>>
  /\ sentDiagnostics = [uri \in Uris |-> << >>]

llmServerVars == <<enabled, textDocuments, llmDebounceTimers, pendingAnalyses,
                   sentDiagnostics>>

\* no call of Validator.validate
NoValidator ==
  /\ validatorPc = "idle"
  /\ maxRetries = 0 /\ attempt = 0
  /\ currentFiles = <<>> /\ errors = <<>>
  /\ tscResult = [success |-> TRUE, errors |-> <<>>]
  /\ validateResult = << >>
  /\ console = <<>>

validatorVars == <<validatorPc, maxRetries, attempt, currentFiles, errors, tscResult,
                   validateResult, console>>

NoRest == NoLLMServer /\ NoValidator

restVars == <<llmServerVars, validatorVars>>

\* the parts of the repository that run apart from parse, analyze and
\* compile are at rest
NoOther == NoFind /\ NoServer /\ NoParser /\ NoRest

otherVars == <<findVars, serverVars, parserVars, restVars>>

\* no call of levenshteinDistance on its own
NoLevenshtein == levA = <<>> /\ levB = <<>> /\ levResult = 0

Init ==
  /\ source \in Sources
  /\ position = 0 /\ line = 1 /\ column = 1
  /\ tokens = <<>>
  /\ pc = "lex"
  /\ run = 1
  /\ document = NoDocument
  /\ definitions = <<>> /\ references = <<>> /\ diagnostics = <<>>
  /\ firstDiagnostics = <<>>
  /\ simName = <<>> /\ simDefs = <<>> /\ simResult = <<>>
  /\ NoCompile
  /\ NoLevenshtein
  /\ NoOther

simVars == <<simName, simDefs, simResult>>
compileVars == <<compilePc, files, compileDiagnostics, called>>
levVars == <<levA, levB, levResult>>
lexerVars == <<position, line, column, tokens>>
analyzerVars == <<definitions, references, diagnostics>>

\* one iteration of the do-while loop of Lexer.tokenize
NextToken ==
  /\ pc = "lex"
  /\ LET r == nextToken(source, cursor)
     IN /\ tokens' = Append(tokens, r.token)
        /\ position' = r.cur.offset
        /\ line' = r.cur.line
        /\ column' = r.cur.column
        /\ pc' = IF r.token.type = "EOF" THEN "parse" ELSE "lex"
  /\ UNCHANGED <<source, run, document, analyzerVars, firstDiagnostics, simVars, compileVars, levVars, otherVars>>

\* parse(source), once the tokens are there
Parse ==
  /\ pc = "parse"
  /\ document' = parseTokens(tokens)
  /\ pc' = "analyze"
  /\ UNCHANGED <<source, run, lexerVars, analyzerVars, firstDiagnostics, simVars, compileVars, levVars, otherVars>>

\* analyze(document): new Analyzer(document)
NewAnalyzer ==
  /\ pc = "analyze"
  /\ definitions' = newAnalyzer.definitions
  /\ references' = newAnalyzer.references
  /\ diagnostics' = newAnalyzer.diagnostics
  /\ pc' = "collectDefinitions"
  /\ UNCHANGED <<source, run, lexerVars, document, firstDiagnostics, simVars, compileVars, levVars, otherVars>>

\* the Analyzer's fields become those of st; an exception ends the run
Becomes(st, nextPc) ==
  /\ definitions' = st.definitions
  /\ references' = st.references
  /\ diagnostics' = st.diagnostics
  /\ pc' = IF st.threw THEN "error" ELSE nextPc
  /\ UNCHANGED <<source, run, lexerVars, document, firstDiagnostics, simVars, compileVars, levVars, otherVars>>

CollectDefinitions ==
  /\ pc = "collectDefinitions"
  /\ Becomes(collectDefinitions(document, analyzer), "collectReferences")

CollectReferences ==
  /\ pc = "collectReferences"
  /\ Becomes(collectReferences(document, analyzer), "detectUndefinedReferences")

DetectUndefinedReferences ==
  /\ pc = "detectUndefinedReferences"
  /\ Becomes(detectUndefinedReferences(analyzer), "detectUnusedConcepts")

DetectUnusedConcepts ==
  /\ pc = "detectUnusedConcepts"
  /\ Becomes(detectUnusedConcepts(analyzer), "done")

\* the caller keeps the diagnostics and calls parse and analyze again:
\* a new Lexer on the same source
Again ==
  /\ pc = "done" /\ run = 1
  /\ firstDiagnostics' = diagnostics
  /\ run' = 2
  /\ position' = 0 /\ line' = 1 /\ column' = 1
  /\ tokens' = <<>>
  /\ pc' = "lex"
  /\ UNCHANGED <<source, document, analyzerVars, simVars, compileVars, levVars, otherVars>>

\* what compile leaves alone
CompileFrame ==
  UNCHANGED <<source, run, pc, lexerVars, document, analyzerVars, firstDiagnostics,
              simVars, levVars, otherVars>>

\* parse and the core analysis have returned to compile
CoreAnalysisReturned == pc = "done" /\ run = 2 /\ compilePc = "analyzeCore"

\* templateBasedGeneration throws after it wrote some of its files: the
\* catch of compile adds one error diagnostic
TemplatesThrow(diagnostics0) ==
  /\ LET written == templateBasedGeneration(document, files, diagnostics0).files
     IN \E n \in 0..(Len(written) - 1) : files' = SubSeq(written, 1, n)
  /\ compileDiagnostics' = Append(diagnostics0, compilerDiagnostic("error", <<"error.message">>))
  /\ called' = called \cup {"templateBasedGeneration", "analyze"}
  /\ compilePc' = "returned"

\* the core diagnostics hold an error: compile returns at once
CompileHasErrors ==
  /\ CoreAnalysisReturned
  /\ hasErrors(diagnostics)
  /\ compileDiagnostics' = diagnostics
  /\ compilePc' = "returned"
  /\ UNCHANGED <<files, called>>
  /\ CompileFrame

\* getLLMConfig() returns a configuration: compile awaits generateWithLLM
CompileWithLLM ==
  /\ CoreAnalysisReturned
  /\ ~hasErrors(diagnostics)
  /\ compileDiagnostics' = diagnostics
  /\ called' = called \cup {"generateWithLLM"}
  /\ compilePc' = "generateWithLLM"
  /\ UNCHANGED files
  /\ CompileFrame

\* getLLMConfig() returns null: template-based generation
CompileWithTemplates ==
  /\ CoreAnalysisReturned
  /\ ~hasErrors(diagnostics)
  /\ LET r == templateBasedGeneration(document, files, diagnostics)
     IN /\ files' = r.files
        /\ compileDiagnostics' = Append(r.diagnostics,
                                   compilerDiagnostic("info", <<"Set OPENAI_API_KEY or NATURAL_LLM_API_KEY">>))
  /\ called' = called \cup {"templateBasedGeneration", "analyze"}
  /\ compilePc' = "returned"
  /\ CompileFrame

\* getLLMConfig() returns null and the template-based generation throws
CompileTemplatesThrow ==
  /\ CoreAnalysisReturned
  /\ ~hasErrors(diagnostics)
  /\ TemplatesThrow(diagnostics)
  /\ CompileFrame

\* generateWithLLM resolves: its files are copied
GenerateWithLLMResolves ==
  /\ compilePc = "generateWithLLM"
  /\ \E result \in LLMFiles : files' = result
  /\ compileDiagnostics' = Append(compileDiagnostics,
                             compilerDiagnostic("info", <<"Code generated using AI">>))
  /\ compilePc' = "returned"
  /\ UNCHANGED called
  /\ CompileFrame

\* generateWithLLM rejects: a warning and no template-based generation
GenerateWithLLMRejectsNoFallback ==
  /\ compilePc = "generateWithLLM"
  /\ compileDiagnostics' = Append(compileDiagnostics,
                             compilerDiagnostic("warning", <<"LLM compilation failed">>))
  /\ compilePc' = "returned"
  /\ UNCHANGED <<files, called>>
  /\ CompileFrame

\* generateWithLLM rejects: a warning, then template-based generation
GenerateWithLLMRejects ==
  /\ compilePc = "generateWithLLM"
  /\ LET warned == Append(compileDiagnostics,
                     compilerDiagnostic("warning", <<"LLM compilation failed">>))
         r == templateBasedGeneration(document, files, warned)
     IN /\ files' = r.files
        /\ compileDiagnostics' = r.diagnostics
  /\ called' = called \cup {"templateBasedGeneration", "analyze"}
  /\ compilePc' = "returned"
  /\ CompileFrame

\* generateWithLLM rejects and the template-based generation throws
GenerateWithLLMRejectsTemplatesThrow ==
  /\ compilePc = "generateWithLLM"
  /\ TemplatesThrow(Append(compileDiagnostics,
                      compilerDiagnostic("warning", <<"LLM compilation failed">>)))
  /\ CompileFrame

Next ==
  \/ NextToken
  \/ Parse
  \/ NewAnalyzer
  \/ CollectDefinitions
  \/ CollectReferences
  \/ DetectUndefinedReferences
  \/ DetectUnusedConcepts
  \/ Again

Spec == Init /\ [][Next]_vars

(***************************************************************************)
(* compile(source): parse and the core analysis as above, then the         *)
(* generation, for every source of at most MaxCompilePieces pieces.        *)
(***************************************************************************)
InitCompile ==
  /\ source \in SourcesOf(MaxCompilePieces)
  /\ position = 0 /\ line = 1 /\ column = 1
  /\ tokens = <<>>
  /\ pc = "lex"
  /\ run = 1
  /\ document = NoDocument
  /\ definitions = <<>> /\ references = <<>> /\ diagnostics = <<>>
  /\ firstDiagnostics = <<>>
  /\ simName = <<>> /\ simDefs = <<>> /\ simResult = <<>>
  /\ NoCompile
  /\ NoLevenshtein
  /\ NoOther

NextCompile ==
  \/ NextToken
  \/ Parse
  \/ NewAnalyzer
  \/ CollectDefinitions
  \/ CollectReferences
  \/ DetectUndefinedReferences
  \/ DetectUnusedConcepts
  \/ Again
  \/ CompileHasErrors
  \/ CompileWithLLM
  \/ CompileWithTemplates
  \/ CompileTemplatesThrow
  \/ GenerateWithLLMResolves
  \/ GenerateWithLLMRejects
  \/ GenerateWithLLMRejectsTemplatesThrow

SpecCompile == InitCompile /\ [][NextCompile]_vars

(***************************************************************************)
(* findSimilarConcepts on its own: an undefined name against the keys of a *)
(* definitions map.  Names match [A-Z][A-Za-z0-9_]*, the keys of a map are *)
(* distinct, and the undefined name is not one of them.                    *)
(***************************************************************************)
NameFirst == {"A", "B"}
NameRest == {"b", "B"}

RECURSIVE NamesOfLen(_)
NamesOfLen(n) ==
  IF n = 1 THEN { << c >> : c \in NameFirst }
  ELSE { Append(s, c) : s \in NamesOfLen(n - 1), c \in NameRest }

SimNames == UNION { NamesOfLen(n) : n \in 1..MaxNameLen }

\* the sequences of at most n distinct names from S
RECURSIVE KeySeqs(_, _)
KeySeqs(S, n) ==
  IF n = 0 THEN { <<>> }
  ELSE LET shorter == KeySeqs(S, n - 1)
           longer == { Append(ks, k) : ks \in shorter, k \in S }
       IN shorter \cup { ks \in longer : \A i \in 1..(Len(ks) - 1) : ks[i] # ks[Len(ks)] }

InitSimilar ==
  /\ simName \in SimNames
  /\ simDefs \in KeySeqs(SimNames \ {simName}, MaxDefs)
  /\ simResult = <<>>
  /\ pc = "similar"
  /\ source = <<>>
  /\ position = 0 /\ line = 1 /\ column = 1
  /\ tokens = <<>>
  /\ run = 1
  /\ document = NoDocument
  /\ definitions = <<>> /\ references = <<>> /\ diagnostics = <<>>
  /\ firstDiagnostics = <<>>
  /\ NoCompile
  /\ NoLevenshtein
  /\ NoOther

FindSimilar ==
  /\ pc = "similar"
  /\ simResult' = findSimilarConcepts(simName, simDefs)
  /\ pc' = "similarDone"
  /\ UNCHANGED <<source, run, lexerVars, document, analyzerVars, firstDiagnostics,
                 simName, simDefs, compileVars, levVars, otherVars>>

NextSimilar == FindSimilar

SpecSimilar == InitSimilar /\ [][NextSimilar]_vars

(***************************************************************************)
(* findConceptAtPosition on the document of every source of at most        *)
(* MaxFindPieces pieces, at every LSP position of the source.              *)
(***************************************************************************)
InitFind ==
  /\ source \in SourcesOf(MaxFindPieces)
  /\ position = 0 /\ line = 1 /\ column = 1
  /\ tokens = <<>>
  /\ pc = "lex"
  /\ run = 1
  /\ document = NoDocument
  /\ definitions = <<>> /\ references = <<>> /\ diagnostics = <<>>
  /\ firstDiagnostics = <<>>
  /\ simName = <<>> /\ simDefs = <<>> /\ simResult = <<>>
  /\ NoCompile
  /\ NoLevenshtein
  /\ NoOther

\* the LSP positions of the source: 0-indexed line and character
LSPPositions ==
  { [line |-> l, character |-> c] :
      l \in 0..Cardinality({ i \in DOMAIN source : source[i] = "\n" }),
      c \in 0..Len(source) }

\* a request of the editor at a position of the parsed document
FindConceptAtPosition ==
  /\ pc = "analyze"
  /\ \E p \in LSPPositions :
       /\ findPosition' = p
       /\ findResult' = findConceptAtPosition(document, p)
  /\ pc' = "found"
  /\ UNCHANGED <<source, run, lexerVars, document, analyzerVars, firstDiagnostics,
                 simVars, compileVars, levVars, serverVars, parserVars, restVars>>

NextFind ==
  \/ NextToken
  \/ Parse
  \/ FindConceptAtPosition

SpecFind == InitFind /\ [][NextFind]_vars

(***************************************************************************)
(* The language server under open, change and close events of two          *)
(* documents, with texts of at most MaxTextPieces pieces.                  *)
(***************************************************************************)
Texts == SourcesOf(MaxTextPieces)

InitServer ==
  /\ NoServer
  /\ pc = "listen"
  /\ source = <<>>
  /\ position = 0 /\ line = 1 /\ column = 1
  /\ tokens = <<>>
  /\ run = 1
  /\ document = NoDocument
  /\ definitions = <<>> /\ references = <<>> /\ diagnostics = <<>>
  /\ firstDiagnostics = <<>>
  /\ simName = <<>> /\ simDefs = <<>> /\ simResult = <<>>
  /\ NoCompile
  /\ NoLevenshtein
  /\ NoFind
  /\ NoParser
  /\ NoRest

\* what the handlers of the server leave alone
ServerFrame ==
  UNCHANGED <<source, run, pc, lexerVars, document, analyzerVars, firstDiagnostics,
              simVars, compileVars, levVars, findVars, parserVars, restVars>>

\* validateDocument(textDocument): parse and cache, analyze, send
ValidateDocument(uri, text) ==
  /\ documentCache' = parseDocument(documentCache, uri, text)
  /\ published' = [published EXCEPT ![uri] = << analyzeCore(parse(text)) >>]

\* the editor opens a document: the manager fires onDidOpen and
\* onDidChangeContent, each of which calls validateDocument
DidOpen ==
  \E uri \in Uris, text \in Texts :
    /\ documents[uri] = << >>
    /\ documents' = [documents EXCEPT ![uri] = << text >>]
    /\ ValidateDocument(uri, text)
    /\ lastEvent' = [lastEvent EXCEPT ![uri] = "open"]
    /\ ServerFrame

\* the editor changes an open document: onDidChangeContent
DidChangeContent ==
  \E uri \in Uris, text \in Texts :
    /\ documents[uri] # << >>
    /\ documents' = [documents EXCEPT ![uri] = << text >>]
    /\ ValidateDocument(uri, text)
    /\ lastEvent' = [lastEvent EXCEPT ![uri] = "change"]
    /\ ServerFrame

\* the editor closes an open document: onDidClose
DidClose ==
  \E uri \in Uris :
    /\ documents[uri] # << >>
    /\ documents' = [documents EXCEPT ![uri] = << >>]
    /\ documentCache' = MapDelete(documentCache, uri)
    /\ lastEvent' = [lastEvent EXCEPT ![uri] = "close"]
    /\ UNCHANGED published
    /\ ServerFrame

NextServer ==
  \/ DidOpen
  \/ DidChangeContent
  \/ DidClose

SpecServer == InitServer /\ [][NextServer]_vars

(***************************************************************************)
(* The section-splitting parser on every text of at most MaxSectionPieces  *)
(* pieces.                                                                 *)
(***************************************************************************)
SectionPieces == { <<"@", "A">>, <<"@", "B">>, <<"i", "s">>, <<"b">>, <<" ">>, <<"\n">> }

RECURSIVE SectionTextsOf(_)
SectionTextsOf(n) ==
  IF n = 0 THEN { <<>> }
  ELSE LET S == SectionTextsOf(n - 1) IN S \cup { t \o p : t \in S, p \in SectionPieces }

InitParser ==
  /\ parserText \in SectionTextsOf(MaxSectionPieces)
  /\ ast = [sections |-> <<>>]
  /\ parserDiagnostics = <<>>
  /\ pc = "Parser.parse"
  /\ source = <<>>
  /\ position = 0 /\ line = 1 /\ column = 1
  /\ tokens = <<>>
  /\ run = 1
  /\ document = NoDocument
  /\ definitions = <<>> /\ references = <<>> /\ diagnostics = <<>>
  /\ firstDiagnostics = <<>>
  /\ simName = <<>> /\ simDefs = <<>> /\ simResult = <<>>
  /\ NoCompile
  /\ NoLevenshtein
  /\ NoFind
  /\ NoServer
  /\ NoRest

\* Parser.parse(): buildAST, then generateDiagnostics
ParserParse ==
  /\ pc = "Parser.parse"
  /\ ast' = buildAST(parserText)
  /\ parserDiagnostics' = generateDiagnostics(buildAST(parserText))
  /\ pc' = "ParseResult"
  /\ UNCHANGED <<source, run, lexerVars, document, analyzerVars, firstDiagnostics,
                 simVars, compileVars, levVars, findVars, serverVars, parserText,
                 restVars>>

NextParser == ParserParse

SpecParser == InitParser /\ [][NextParser]_vars

(***************************************************************************)
(* The language server with the LLM analysis under open, change and close  *)
(* events of two documents, firings of the debounce timers and answers of  *)
(* the LLM, with at most MaxInFlight analyses awaited at a time.           *)
(***************************************************************************)
\* a text without diagnostics, one with an undefined reference and one with
\* a duplicate definition
LLMTexts ==
  { <<"@", "A">>, <<"b", "@", "A">>, <<"@", "A", "\n", "\n", "@", "A">> }

\* what llmAnalyzer.analyze resolves to
LLMResults ==
  { <<>>, << [line |-> 2, message |-> "ambiguous", severity |-> "warning"] >> }

InitLLMServer ==
  /\ enabled \in BOOLEAN
  /\ textDocuments = [uri \in Uris |-> << >>]
  /\ llmDebounceTimers = [uri \in Uris |-> << >>]
  /\ pendingAnalyses = <<>>
  /\ sentDiagnostics = [uri \in Uris |-> << >>]
  /\ pc = "listen"
  /\ source = <<>>
  /\ position = 0 /\ line = 1 /\ column = 1
  /\ tokens = <<>>
  /\ run = 1
  /\ document = NoDocument
  /\ definitions = <<>> /\ references = <<>> /\ diagnostics = <<>>
  /\ firstDiagnostics = <<>>
  /\ simName = <<>> /\ simDefs = <<>> /\ simResult = <<>>
  /\ NoCompile
  /\ NoLevenshtein
  /\ NoFind
  /\ NoServer
  /\ NoParser
  /\ NoValidator

\* what the server with the LLM analysis leaves alone
LLMServerFrame ==
  UNCHANGED <<source, run, pc, lexerVars, document, analyzerVars, firstDiagnostics,
              simVars, compileVars, levVars, findVars, serverVars, parserVars,
              validatorVars, enabled>>

\* validateDocument(textDocument) up to its return: the static diagnostics
\* are sent, and with the LLM enabled the timer of the document is cleared
\* and a new one set, whose callback holds the text and the static
\* diagnostics
validateDocumentLLM(uri, text) ==
  /\ sentDiagnostics' = [sentDiagnostics EXCEPT ![uri] = << staticDiagnostics(text) >>]
  /\ llmDebounceTimers' =
       IF enabled
       THEN [llmDebounceTimers EXCEPT
               ![uri] = << [text |-> text, diagnostics |-> staticDiagnostics(text)] >>]
       ELSE llmDebounceTimers

\* the editor opens a document: onDidOpen and onDidChangeContent, each of
\* which calls validateDocument with the same text
LLMDidOpen ==
  \E uri \in Uris, text \in LLMTexts :
    /\ textDocuments[uri] = << >>
    /\ textDocuments' = [textDocuments EXCEPT ![uri] = << text >>]
    /\ validateDocumentLLM(uri, text)
    /\ UNCHANGED pendingAnalyses
    /\ LLMServerFrame

\* the editor changes an open document: onDidChangeContent
LLMDidChangeContent ==
  \E uri \in Uris, text \in LLMTexts :
    /\ textDocuments[uri] # << >>
    /\ textDocuments' = [textDocuments EXCEPT ![uri] = << text >>]
    /\ validateDocumentLLM(uri, text)
    /\ UNCHANGED pendingAnalyses
    /\ LLMServerFrame

\* the editor closes a document: the server has no handler for it, the
\* timer of the document stays
LLMDidClose ==
  \E uri \in Uris :
    /\ textDocuments[uri] # << >>
    /\ textDocuments' = [textDocuments EXCEPT ![uri] = << >>]
    /\ UNCHANGED <<llmDebounceTimers, pendingAnalyses, sentDiagnostics>>
    /\ LLMServerFrame

\* a debounce timer fires: its callback calls llmAnalyzer.analyze(text) and
\* awaits the answer
DebounceTimerFires ==
  \E uri \in Uris :
    /\ llmDebounceTimers[uri] # << >>
    /\ Len(pendingAnalyses) < MaxInFlight
    /\ pendingAnalyses' =
         Append(pendingAnalyses, [uri |-> uri,
                                  text |-> llmDebounceTimers[uri][1].text,
                                  diagnostics |-> llmDebounceTimers[uri][1].diagnostics])
    /\ llmDebounceTimers' = [llmDebounceTimers EXCEPT ![uri] = << >>]
    /\ UNCHANGED <<textDocuments, sentDiagnostics>>
    /\ LLMServerFrame

\* the analyses awaited without the i-th
withoutAnalysis(i) ==
  SubSeq(pendingAnalyses, 1, i - 1) \o SubSeq(pendingAnalyses, i + 1, Len(pendingAnalyses))

\* llmAnalyzer.analyze resolves: the callback sends the static diagnostics
\* of its closure followed by those of the LLM
LLMAnalysisResolves ==
  \E i \in DOMAIN pendingAnalyses, llmResult \in LLMResults :
    /\ sentDiagnostics' =
         [sentDiagnostics EXCEPT
            ![pendingAnalyses[i].uri] =
               << pendingAnalyses[i].diagnostics \o llmDiagnosticsOf(llmResult) >>]
    /\ pendingAnalyses' = withoutAnalysis(i)
    /\ UNCHANGED <<textDocuments, llmDebounceTimers>>
    /\ LLMServerFrame

\* the callback throws on the answer of the LLM (an entry that is no
\* object): the catch logs the error and nothing is sent
LLMAnalysisThrows ==
  \E i \in DOMAIN pendingAnalyses :
    /\ pendingAnalyses' = withoutAnalysis(i)
    /\ UNCHANGED <<textDocuments, llmDebounceTimers, sentDiagnostics>>
    /\ LLMServerFrame

NextLLMServer ==
  \/ LLMDidOpen
  \/ LLMDidChangeContent
  \/ LLMDidClose
  \/ DebounceTimerFires
  \/ LLMAnalysisResolves
  \/ LLMAnalysisThrows

SpecLLMServer == InitLLMServer /\ [][NextLLMServer]_vars

(***************************************************************************)
(* Validator.validate(files, outputDir) for every maxRetries from 1 to     *)
(* MaxRetries.  Each await of validate is one step; the file system, npm,  *)
(* tsc and the LLM answer in every way they can.                           *)
(***************************************************************************)
\* the files handed to validate
GeneratedFiles ==
  { <<>>, << [path |-> "src/app.ts", content |-> "generated"] >> }

\* the errors runTypeScriptCheck returns for a failed check: never empty
TscErrors ==
  { << "src/app.ts(1,1): error TS1005" >>, << "src/app.ts(2,1): error TS2304" >> }

InitValidator ==
  /\ validatorPc = "while"
  /\ maxRetries \in 1..MaxRetries
  /\ attempt = 0
  /\ currentFiles \in GeneratedFiles
  /\ errors = <<>>
  /\ tscResult = [success |-> TRUE, errors |-> <<>>]
  /\ validateResult = << >>
  /\ console = <<>>
  /\ pc = "validate"
  /\ source = <<>>
  /\ position = 0 /\ line = 1 /\ column = 1
  /\ tokens = <<>>
  /\ run = 1
  /\ document = NoDocument
  /\ definitions = <<>> /\ references = <<>> /\ diagnostics = <<>>
  /\ firstDiagnostics = <<>>
  /\ simName = <<>> /\ simDefs = <<>> /\ simResult = <<>>
  /\ NoCompile
  /\ NoLevenshtein
  /\ NoFind
  /\ NoServer
  /\ NoParser
  /\ NoLLMServer

\* what validate leaves alone
ValidatorFrame ==
  UNCHANGED <<source, run, pc, lexerVars, document, analyzerVars, firstDiagnostics,
              simVars, compileVars, levVars, findVars, serverVars, parserVars,
              llmServerVars, maxRetries>>

\* the loop condition holds: attempt++, the log line, and writeFiles resolves
WriteFiles ==
  /\ validatorPc = "while"
  /\ attempt < maxRetries
  /\ attempt' = attempt + 1
  /\ console' = Append(console, "Validation attempt")
  /\ validatorPc' = IF attempt + 1 = 1 THEN "npm install" ELSE "runTypeScriptCheck"
  /\ UNCHANGED <<currentFiles, errors, tscResult, validateResult>>
  /\ ValidatorFrame

\* writeFiles rejects on a file it cannot write: validate rejects
WriteFilesRejects ==
  /\ validatorPc = "while"
  /\ attempt < maxRetries
  /\ currentFiles # <<>>
  /\ attempt' = attempt + 1
  /\ console' = Append(console, "Validation attempt")
  /\ validatorPc' = "rejected"
  /\ UNCHANGED <<currentFiles, errors, tscResult, validateResult>>
  /\ ValidatorFrame

\* the loop condition fails: validate returns the errors it has collected
ValidateReturnsErrors ==
  /\ validatorPc = "while"
  /\ ~ (attempt < maxRetries)
  /\ validateResult' = << [success |-> FALSE, errors |-> errors] >>
  /\ validatorPc' = "returned"
  /\ UNCHANGED <<attempt, currentFiles, errors, tscResult, console>>
  /\ ValidatorFrame

\* attempt === 1: npm install, whose failure is only a warning
NpmInstall ==
  /\ validatorPc = "npm install"
  /\ \E failed \in BOOLEAN :
       console' = console \o << "Installing dependencies..." >>
                   \o (IF failed THEN << "npm install had warnings, continuing..." >>
                       ELSE <<>>)
  /\ validatorPc' = "runTypeScriptCheck"
  /\ UNCHANGED <<attempt, currentFiles, errors, tscResult, validateResult>>
  /\ ValidatorFrame

\* runTypeScriptCheck succeeds: validate returns success
TypeScriptCheckPasses ==
  /\ validatorPc = "runTypeScriptCheck"
  /\ tscResult' = [success |-> TRUE, errors |-> <<>>]
  /\ console' = Append(console, "TypeScript validation passed!")
  /\ validateResult' = << [success |-> TRUE, errors |-> <<>>] >>
  /\ validatorPc' = "returned"
  /\ UNCHANGED <<attempt, currentFiles, errors>>
  /\ ValidatorFrame

\* TypeScriptCheckFails that takes the fix step after the last attempt too
TypeScriptCheckFailsFixAlways ==
  /\ validatorPc = "runTypeScriptCheck"
  /\ \E tscErrors \in TscErrors :
       /\ tscResult' = [success |-> FALSE, errors |-> tscErrors]
       /\ console' = console \o << "TypeScript validation failed",
                                    "Attempting to fix errors with LLM..." >>
       /\ validatorPc' = "fixErrors"
       /\ UNCHANGED errors
  /\ UNCHANGED <<attempt, currentFiles, validateResult>>
  /\ ValidatorFrame

\* runTypeScriptCheck fails: before the last attempt the fix step follows,
\* at the last attempt the errors are kept
TypeScriptCheckFails ==
  /\ validatorPc = "runTypeScriptCheck"
  /\ \E tscErrors \in TscErrors :
       /\ tscResult' = [success |-> FALSE, errors |-> tscErrors]
       /\ IF attempt < maxRetries
          THEN /\ console' = console \o << "TypeScript validation failed",
                                           "Attempting to fix errors with LLM..." >>
               /\ validatorPc' = "fixErrors"
               /\ UNCHANGED errors
          ELSE /\ console' = Append(console, "TypeScript validation failed")
               /\ errors' = errors \o tscErrors
               /\ validatorPc' = "while"
  /\ UNCHANGED <<attempt, currentFiles, validateResult>>
  /\ ValidatorFrame

\* fixErrors resolves: each file named by the errors holds the answer of the
\* LLM, or is kept when llm.complete rejects
FixErrors ==
  /\ validatorPc = "fixErrors"
  /\ \E fixed \in BOOLEAN :
       currentFiles' =
         [k \in DOMAIN currentFiles |->
            IF fixed THEN [currentFiles[k] EXCEPT !.content = "fixed"]
            ELSE currentFiles[k]]
  /\ validatorPc' = "while"
  /\ UNCHANGED <<attempt, errors, tscResult, validateResult, console>>
  /\ ValidatorFrame

NextValidator ==
  \/ WriteFiles
  \/ WriteFilesRejects
  \/ ValidateReturnsErrors
  \/ NpmInstall
  \/ TypeScriptCheckPasses
  \/ TypeScriptCheckFails
  \/ FixErrors

\* every awaited operation settles
SpecValidator == InitValidator /\ [][NextValidator]_vars /\ WF_vars(NextValidator)

(***************************************************************************)
(* Lexer.tokenize() on its own, for sources with spaces, tabs and carriage *)
(* returns.                                                                *)
(***************************************************************************)
WsPieces == { <<"@", "A">>, <<"b">>, <<" ">>, <<"\t">>, <<"\r">>, <<"\n">> }

RECURSIVE WsSourcesOf(_)
WsSourcesOf(n) ==
  IF n = 0 THEN { <<>> }
  ELSE LET S == WsSourcesOf(n - 1) IN S \cup { s \o p : s \in S, p \in WsPieces }

WsSources == WsSourcesOf(MaxWsPieces)

InitTokenize ==
  /\ source \in WsSources
  /\ position = 0 /\ line = 1 /\ column = 1
  /\ tokens = <<>>
  /\ pc = "lex"
  /\ run = 1
  /\ document = NoDocument
  /\ definitions = <<>> /\ references = <<>> /\ diagnostics = <<>>
  /\ firstDiagnostics = <<>>
  /\ simName = <<>> /\ simDefs = <<>> /\ simResult = <<>>
  /\ NoCompile
  /\ NoLevenshtein
  /\ NoOther

NextTokenize == NextToken

SpecTokenize == InitTokenize /\ [][NextTokenize]_vars

(***************************************************************************)
(* levenshteinDistance(a, b) on its own, for every two strings of at most  *)
(* MaxStrLen letters.                                                      *)
(***************************************************************************)
Letters == {"a", "b", "c"}

RECURSIVE StringsOf(_)
StringsOf(n) ==
  IF n = 0 THEN { <<>> }
  ELSE StringsOf(n - 1) \cup { Append(w, c) : w \in StringsOf(n - 1), c \in Letters }

Strings == StringsOf(MaxStrLen)

InitLevenshtein ==
  /\ levA \in Strings /\ levB \in Strings
  /\ levResult = 0
  /\ pc = "levenshteinDistance"
  /\ source = <<>>
  /\ position = 0 /\ line = 1 /\ column = 1
  /\ tokens = <<>>
  /\ run = 1
  /\ document = NoDocument
  /\ definitions = <<>> /\ references = <<>> /\ diagnostics = <<>>
  /\ firstDiagnostics = <<>>
  /\ simName = <<>> /\ simDefs = <<>> /\ simResult = <<>>
  /\ NoCompile
  /\ NoOther

\* the call returns its result
LevenshteinDistance ==
  /\ pc = "levenshteinDistance"
  /\ levResult' = levenshteinDistance(levA, levB)
  /\ pc' = "returned"
  /\ UNCHANGED <<source, run, lexerVars, document, analyzerVars, firstDiagnostics,
                 simVars, compileVars, levA, levB, otherVars>>

NextLevenshtein == LevenshteinDistance

SpecLevenshtein == InitLevenshtein /\ [][NextLevenshtein]_vars

(***************************************************************************)
(* Properties                                                              *)
(***************************************************************************)
\* tokenize() has returned: the token list is complete
Tokenized == pc \notin {"lex", "similar", "similarDone"}

\* parse(source) has returned: the document is that of this run's tokens
Parsed == pc \notin {"lex", "parse", "similar", "similarDone"}

Severities == {"error", "warning", "info"}
Codes == {"duplicate-definition", "undefined-reference", "unused-concept"}

\* C1: for every source, the empty one included, parse returns a
\* NaturalDocument and analyze a list of diagnostics: no step of either
\* throws, and each run is at one of the steps of parse and analyze or at
\* the return of analyze.
C1_Totality ==
  /\ pc # "error"
  /\ pc \in {"lex", "parse", "analyze", "collectDefinitions", "collectReferences",
             "detectUndefinedReferences", "detectUnusedConcepts", "done"}
  /\ (Parsed => document.type = "NaturalDocument")
  /\ (pc = "done" =>
        \A i \in DOMAIN diagnostics :
          diagnostics[i].severity \in Severities /\ diagnostics[i].code \in Codes)

\* analyze has returned on a document with a name referenced more than once
C1_Witness ==
  /\ pc = "done"
  /\ \E i \in DOMAIN references : Len(references[i].value) >= 2
  /\ diagnostics # <<>>

\* analyze has returned on the document of the empty source
C1_WitnessEmpty == pc = "done" /\ source = <<>> /\ diagnostics = <<>>

EofCount(toks) == Cardinality({ i \in DOMAIN toks : toks[i].type = "EOF" })

\* C2: tokenize terminates: a nextToken call that returns a token other
\* than EOF moves the cursor forward by at least one character, so at most
\* Len(source) + 1 tokens are produced, and the list returned holds exactly
\* one EOF token, its last element.
C2_TokenizeTerminates ==
  /\ [] ( /\ position <= Len(source)
          /\ Len(tokens) <= Len(source) + 1
          /\ (pc = "lex" => EofCount(tokens) = 0)
          /\ (Tokenized => /\ tokens # <<>>
                           /\ tokens[Len(tokens)].type = "EOF"
                           /\ EofCount(tokens) = 1) )
  /\ [][ (pc = "lex" /\ pc' = "lex") => position' >= position + 1 ]_vars

\* tokenize has returned several tokens, a Text token among them
C2_Witness ==
  /\ Tokenized
  /\ Len(tokens) >= 4
  /\ \E i \in DOMAIN tokens : tokens[i].type = "Text"

\* the offsets (0-based) of the '@' of every "@" + uppercase letter that
\* sits at column 1 of a line of src
MarkerOffsets(src) ==
  { o \in 0..(Len(src) - 2) :
      /\ src[o + 1] = "@"
      /\ IsUpper(src[o + 2])
      /\ (o = 0 \/ src[o] = "\n") }

\* the offsets of every other "@" + uppercase letter of src
InlineOffsets(src) ==
  { o \in 1..(Len(src) - 2) :
      /\ src[o + 1] = "@"
      /\ IsUpper(src[o + 2])
      /\ src[o] # "\n" }

\* the maximal run of [A-Za-z0-9_] that follows the '@' at offset o
NameAt(src, o) ==
  LET e == CHOOSE e \in (o + 1)..Len(src) :
             /\ \A i \in (o + 2)..e : IsIdent(src[i])
             /\ (e = Len(src) \/ ~ IsIdent(src[e + 1]))
  IN SubSeq(src, o + 2, e)

DefinitionTokens == { i \in DOMAIN tokens : tokens[i].type = "ConceptDefinition" }

\* C3: the ConceptDefinition tokens are exactly the "@" + uppercase letter
\* occurrences at column 1, one token each, and none comes from such an
\* occurrence elsewhere on a line; a token's value is the maximal run of
\* [A-Za-z0-9_] after its '@'.
C3_DefinitionAnchoring ==
  Tokenized =>
    /\ { tokens[i].start.offset : i \in DefinitionTokens } = MarkerOffsets(source)
    /\ Cardinality(DefinitionTokens) = Cardinality(MarkerOffsets(source))
    /\ \A i \in DefinitionTokens :
         /\ tokens[i].start.column = 1
         /\ tokens[i].start.offset \notin InlineOffsets(source)
         /\ tokens[i].value = NameAt(source, tokens[i].start.offset)

\* a source with a marker at column 1, the same pattern in the middle of a
\* line and the same pattern after leading whitespace
C3_Witness ==
  /\ Tokenized
  /\ DefinitionTokens # {}
  /\ \E o \in InlineOffsets(source) : source[o] = " " /\ (o = 1 \/ source[o - 1] = "\n")
  /\ \E o \in InlineOffsets(source) : source[o] # " "

Concepts == document.concepts

ConceptNames == { Concepts[i].name : i \in DOMAIN Concepts }

\* the indices of the definitions of name n, and the first of them
DefinitionsOf(n) == { i \in DOMAIN Concepts : Concepts[i].name = n }
FirstDefinitionOf(n) ==
  CHOOSE i \in DefinitionsOf(n) : \A j \in DefinitionsOf(n) : i <= j

\* every reference of the document: concept, prose block, index in the block
RefSites ==
  UNION { UNION { { << c, p, r >> : r \in DOMAIN Concepts[c].prose[p].references }
                  : p \in DOMAIN Concepts[c].prose }
          : c \in DOMAIN Concepts }

RefAt(site) == Concepts[site[1]].prose[site[2]].references[site[3]]

ReferencedNames == { RefAt(site).name : site \in RefSites }

\* the diagnostics with a code, and those of them about name n
DiagnosticsWith(code) == { i \in DOMAIN diagnostics : diagnostics[i].code = code }
DiagnosticsAbout(code, n) == { i \in DiagnosticsWith(code) : diagnostics[i].message[2] = n }

\* C4: a name defined k >= 1 times gets exactly k - 1 duplicate-definition
\* errors, each located at one of its later definitions and none at its
\* first one, and the definitions map keeps the first definition.
C4_DuplicateDefinitions ==
  pc = "done" =>
    /\ \A i \in DiagnosticsWith("duplicate-definition") :
         diagnostics[i].message[2] \in ConceptNames
    /\ \A n \in ConceptNames :
         LET first == FirstDefinitionOf(n)
             later == DefinitionsOf(n) \ {first}
             dups  == DiagnosticsAbout("duplicate-definition", n)
         IN /\ Cardinality(dups) = Cardinality(DefinitionsOf(n)) - 1
            /\ \A i \in dups :
                 /\ diagnostics[i].severity = "error"
                 /\ \E j \in later : diagnostics[i].location = Concepts[j].location
                 /\ diagnostics[i].location # Concepts[first].location
            /\ MapGet(definitions, n) = << Concepts[first] >>

\* analyze has returned on a document that defines one name three times
C4_Witness ==
  /\ pc = "done"
  /\ \E n \in ConceptNames : Cardinality(DefinitionsOf(n)) >= 3

UndefinedSites == { site \in RefSites : RefAt(site).name \notin ConceptNames }

\* C5: every reference whose name is defined nowhere gets exactly one
\* undefined-reference error, located at that reference; a reference whose
\* name is defined gets none; a name referenced n times and never defined
\* gets n of them.
C5_UndefinedReferences ==
  pc = "done" =>
    /\ Cardinality(DiagnosticsWith("undefined-reference")) = Cardinality(UndefinedSites)
    /\ \A site \in UndefinedSites :
         Cardinality({ i \in DiagnosticsAbout("undefined-reference", RefAt(site).name) :
                         /\ diagnostics[i].location = RefAt(site).location
                         /\ diagnostics[i].severity = "error" }) = 1
    /\ \A site \in RefSites \ UndefinedSites :
         /\ DiagnosticsAbout("undefined-reference", RefAt(site).name) = {}
         /\ \A i \in DiagnosticsWith("undefined-reference") :
              diagnostics[i].location # RefAt(site).location
    /\ \A n \in ReferencedNames \ ConceptNames :
         Cardinality(DiagnosticsAbout("undefined-reference", n))
           = Cardinality({ site \in RefSites : RefAt(site).name = n })

\* analyze has returned on a document with an undefined name referenced
\* twice and a defined name referenced as well
C5_Witness ==
  /\ pc = "done"
  /\ \E n \in ReferencedNames \ ConceptNames :
       Cardinality({ site \in RefSites : RefAt(site).name = n }) = 2
  /\ RefSites \ UndefinedSites # {}

\* C6: every defined name referenced nowhere gets exactly one unused-concept
\* warning, located at its first definition; a name referenced at least
\* once, be it only in its own prose, gets none.
C6_UnusedConcepts ==
  pc = "done" =>
    /\ \A i \in DiagnosticsWith("unused-concept") :
         diagnostics[i].message[2] \in ConceptNames
    /\ \A n \in ConceptNames :
         LET unused == DiagnosticsAbout("unused-concept", n)
         IN IF n \in ReferencedNames
            THEN unused = {}
            ELSE /\ Cardinality(unused) = 1
                 /\ \A i \in unused :
                      /\ diagnostics[i].severity = "warning"
                      /\ diagnostics[i].location = Concepts[FirstDefinitionOf(n)].location

\* analyze has returned on a document with a concept referenced only in its
\* own prose, and with a concept that nothing references
C6_Witness ==
  /\ pc = "done"
  /\ \E n \in ConceptNames \cap ReferencedNames :
       \A site \in RefSites : RefAt(site).name = n => Concepts[site[1]].name = n
  /\ DiagnosticsWith("unused-concept") # {}

\* C8: analyze(parse(s)) run a second time on the same source returns the
\* diagnostic list of the first run: same length and, position by position,
\* the same severity, code, message and range.
C8_Deterministic ==
  (pc = "done" /\ run = 2) => diagnostics = firstDiagnostics

\* the second run has returned diagnostics of all three codes
C8_Witness ==
  /\ pc = "done" /\ run = 2
  /\ \A code \in Codes : DiagnosticsWith(code) # {}

\* case-insensitive distance of the undefined name to the i-th defined name
SimDistance(i) == levenshteinDistance(toLowerCase(simName), toLowerCase(simDefs[i]))

\* the defined names within min(3, length / 2) of the undefined name
SimClose == { i \in DOMAIN simDefs :
                SimDistance(i) <= 3 /\ 2 * SimDistance(i) <= Len(simName) }

\* i is suggested before j: closer, or as close and earlier in the map
SimBefore(i, j) ==
  SimDistance(i) < SimDistance(j) \/ (SimDistance(i) = SimDistance(j) /\ i < j)

SimRank(i) == Cardinality({ j \in SimClose : SimBefore(j, i) }) + 1

\* C7: the suggestions for an undefined name are the defined names whose
\* case-insensitive Levenshtein distance d satisfies d <= min(3, length / 2),
\* by ascending d, ties in map order, cut to the 3 closest.
C7_Suggestions ==
  pc = "similarDone" =>
    /\ Len(simResult) = Min2(3, Cardinality(SimClose))
    /\ \A i \in SimClose : SimRank(i) <= 3 => simResult[SimRank(i)] = simDefs[i]

\* the '@' + uppercase letter matches of a block's text, as 1-based indices
MatchesIn(text) ==
  { i \in 1..(Len(text) - 1) : text[i] = "@" /\ IsUpper(text[i + 1]) }

\* C9: the references of every prose block are the left-to-right matches of
\* @[A-Z][A-Za-z0-9_]* in its text, one reference per match, in match order,
\* named by the identifier matched; and an @Name in prose makes no concept:
\* the concepts are those of the markers at column 1.
C9_ProseReferences ==
  Parsed =>
    /\ \A c \in DOMAIN Concepts : \A p \in DOMAIN Concepts[c].prose :
         LET text == Concepts[c].prose[p].text
             refs == Concepts[c].prose[p].references
         IN /\ Len(refs) = Cardinality(MatchesIn(text))
            /\ \A i \in MatchesIn(text) :
                 LET k == Cardinality({ j \in MatchesIn(text) : j <= i })
                 IN /\ refs[k].type = "ConceptReference"
                    /\ refs[k].name = NameAt(text, i - 1)
    /\ Len(Concepts) = Cardinality(MarkerOffsets(source))
    /\ \A c \in DOMAIN Concepts :
         Concepts[c].location.range.start.offset \in MarkerOffsets(source)

\* parse has returned a concept whose prose spans two lines and holds two
\* references, one of them to the concept itself
C9_Witness ==
  /\ Parsed
  /\ \E c \in DOMAIN Concepts : \E p \in DOMAIN Concepts[c].prose :
       /\ Len(Concepts[c].prose[p].references) >= 2
       /\ \E i \in DOMAIN Concepts[c].prose[p].text : Concepts[c].prose[p].text[i] = "\n"
       /\ \E r \in DOMAIN Concepts[c].prose[p].references :
            Concepts[c].prose[p].references[r].name = Concepts[c].name

\* the 1-indexed line and column of the character at offset o of the source
SourceLine(o) == 1 + Cardinality({ i \in 1..o : source[i] = "\n" })
SourceColumn(o) ==
  LET newlines == { i \in 1..o : source[i] = "\n" }
      last == IF newlines = {} THEN 0
              ELSE CHOOSE i \in newlines : \A j \in newlines : j <= i
  IN o + 1 - last

\* the offsets of the '@' of the references: the '@' + uppercase letter
\* occurrences that are not at column 1 and come after the first marker
ReferenceOffsets ==
  { o \in InlineOffsets(source) : \E m \in MarkerOffsets(source) : m < o }

ReferenceOffset(k) ==
  CHOOSE o \in ReferenceOffsets : Cardinality({ x \in ReferenceOffsets : x <= o }) = k

AllReferences == documentReferences(Concepts, 1)

\* C10: every reference's range starts at the line and column of its '@'
\* in the source.
C10_ReferencePositions ==
  Parsed =>
    /\ Len(AllReferences) = Cardinality(ReferenceOffsets)
    /\ \A k \in DOMAIN AllReferences :
         /\ AllReferences[k].location.range.start.line = SourceLine(ReferenceOffset(k))
         /\ AllReferences[k].location.range.start.column = SourceColumn(ReferenceOffset(k))


\* the offset of the k-th marker of the source, and the offset after its name
MarkerOffset(k) == Nth(MarkerOffsets(source), k)
MarkerNameEnd(k) == MarkerOffset(k) + 1 + Len(NameAt(source, MarkerOffset(k)))

\* the source text from the end of the k-th marker to the next marker or
\* to the end of input
MarkerBody(k) ==
  SubSeq(source, MarkerNameEnd(k) + 1,
         IF k < Cardinality(MarkerOffsets(source)) THEN MarkerOffset(k + 1)
         ELSE Len(source))

\* s without the spaces, tabs and carriage returns at the start of its lines
RECURSIVE StripLineStarts(_, _)
StripLineStarts(s, atLineStart) ==
  IF s = <<>> THEN <<>>
  ELSE IF atLineStart /\ Head(s) \in {" ", "\t", "\r"}
  THEN StripLineStarts(Tail(s), TRUE)
  ELSE << Head(s) >> \o StripLineStarts(Tail(s), Head(s) = "\n")

\* the k-th ConceptDefinition token and the token that ends its prose
MarkerToken(k) == Nth(DefinitionTokens, k)
NextMarkerToken(k) ==
  IF k < Cardinality(DefinitionTokens) THEN MarkerToken(k + 1) ELSE Len(tokens)

\* the values of the tokens from index i up to index j - 1, concatenated
RECURSIVE TokenText(_, _)
TokenText(i, j) == IF i >= j THEN <<>> ELSE tokens[i].value \o TokenText(i + 1, j)

\* C11: a concept has at most one prose block: exactly one, holding the
\* trimmed text of all Text and Newline tokens up to the next marker or
\* the end of input (that is the source text after the marker name without
\* the whitespace at the start of its lines), when that text is non-empty,
\* and none when it is empty.
C11_OneProseBlock ==
  Parsed =>
    /\ Len(Concepts) = Cardinality(DefinitionTokens)
    /\ Len(Concepts) = Cardinality(MarkerOffsets(source))
    /\ \A k \in DOMAIN Concepts :
         LET text == trim(TokenText(MarkerToken(k) + 1, NextMarkerToken(k)))
         IN /\ \A i \in (MarkerToken(k) + 1)..(NextMarkerToken(k) - 1) :
                 tokens[i].type \in {"Text", "Newline"}
            /\ text = trim(StripLineStarts(MarkerBody(k), FALSE))
            /\ Len(Concepts[k].prose) <= 1
            /\ (text = <<>> => Concepts[k].prose = <<>>)
            /\ (text # <<>> => /\ Len(Concepts[k].prose) = 1
                               /\ Concepts[k].prose[1].text = text)

\* parse has returned a concept whose one prose block merges two paragraphs
\* separated by a blank line
C11_Witness ==
  /\ Parsed
  /\ \E k \in DOMAIN Concepts :
       /\ Len(Concepts[k].prose) = 1
       /\ \E i \in 1..(Len(Concepts[k].prose[1].text) - 1) :
            /\ Concepts[k].prose[1].text[i] = "\n"
            /\ Concepts[k].prose[1].text[i + 1] = "\n"


\* C12: the concepts of the document are the ConceptDefinition tokens, one
\* concept per token, in source order, named by the token's value (the
\* identifier after the '@' of the marker); markers with the same name give
\* separate concepts, and parse reports no diagnostic and no error.
C12_ConceptPerMarker ==
  /\ ((pc = "analyze" /\ run = 1) => diagnostics = <<>>)
  /\ Parsed =>
       /\ Len(Concepts) = Cardinality(DefinitionTokens)
       /\ \A k \in DOMAIN Concepts :
            /\ Concepts[k].type = "ConceptDefinition"
            /\ Concepts[k].name = tokens[MarkerToken(k)].value
            /\ Concepts[k].name = NameAt(source, MarkerOffset(k))
            /\ Concepts[k].location.range.start = tokens[MarkerToken(k)].start

\* parse has returned two concepts of the same name with different prose
C12_Witness ==
  /\ Parsed
  /\ \E j, k \in DOMAIN Concepts :
       /\ j < k
       /\ Concepts[j].name = Concepts[k].name
       /\ Concepts[j].prose # Concepts[k].prose


\* C13: what precedes the first marker is skipped without exception or
\* diagnostic: every concept and every prose block lies at or after the
\* first marker, and a source without a marker at column 1 parses to a
\* document without concepts, for which analyze reports nothing.
C13_StrayTokensSkipped ==
  /\ pc # "error"
  /\ Parsed =>
       /\ (MarkerOffsets(source) = {} => Concepts = <<>>)
       /\ \A k \in DOMAIN Concepts :
            /\ Concepts[k].location.range.start.offset >= MarkerOffset(1)
            /\ \A p \in DOMAIN Concepts[k].prose :
                 Concepts[k].prose[p].location.range.start.offset >= MarkerNameEnd(1)
  /\ (pc = "done" /\ MarkerOffsets(source) = {}) => diagnostics = <<>>

\* parse has returned a concept with prose for a source that starts with a
\* line of text
C13_Witness ==
  /\ Parsed
  /\ tokens[1].type = "Text"
  /\ \E k \in DOMAIN Concepts : Concepts[k].prose # <<>>


\* the Position p is the one of its offset in the source
AtSourcePosition(p) ==
  p.line = SourceLine(p.offset) /\ p.column = SourceColumn(p.offset)

\* the line and column of the cursor and of every token start and end are
\* those of their offset
PositionsFollowOffsets ==
  /\ line = SourceLine(position)
  /\ column = SourceColumn(position)
  /\ \A i \in DOMAIN tokens : AtSourcePosition(tokens[i].start) /\ AtSourcePosition(tokens[i].end)

\* C14 as claimed: line = 1 + the newlines before offset and column = 1 +
\* the characters since the last newline, at the cursor and in every token;
\* offset, line and column never decrease from one token to the next.
C14_ColumnNeverDecreases ==
  /\ PositionsFollowOffsets
  /\ \A i \in 1..(Len(tokens) - 1) :
       /\ tokens[i].start.offset <= tokens[i + 1].start.offset
       /\ tokens[i].start.line <= tokens[i + 1].start.line
       /\ tokens[i].start.column <= tokens[i + 1].start.column

\* C14: line = 1 + the newlines before offset and column = 1 + the
\* characters since the last newline, at the cursor and in every token;
\* offset and line never decrease from one token to the next, and column
\* does not decrease between two tokens of the same line.
C14_Positions ==
  /\ PositionsFollowOffsets
  /\ \A i \in 1..(Len(tokens) - 1) :
       /\ tokens[i].start.offset <= tokens[i + 1].start.offset
       /\ tokens[i].end.offset <= tokens[i + 1].end.offset
       /\ tokens[i].start.line <= tokens[i + 1].start.line
       /\ tokens[i].end.line <= tokens[i + 1].end.line
       /\ (tokens[i].start.line = tokens[i + 1].start.line
             => tokens[i].start.column <= tokens[i + 1].start.column)
       /\ (tokens[i].end.line = tokens[i + 1].end.line
             => tokens[i].end.column <= tokens[i + 1].end.column)

\* tokenize has returned tokens of two lines, one of them starting in the
\* middle of the second line, and a token that starts at a smaller column
\* than the token before it
C14_Witness ==
  /\ Tokenized
  /\ \E i \in DOMAIN tokens : tokens[i].start.line >= 2 /\ tokens[i].start.column >= 2
  /\ \E i \in 1..(Len(tokens) - 1) : tokens[i + 1].start.column < tokens[i].start.column


\* compile has returned its result
Compiled == compilePc = "returned"

\* C15: when the core analysis of the parsed source holds at least one
\* error-severity diagnostic, compile returns an empty files map and the
\* core diagnostics as its diagnostics, and neither the structure analysis
\* nor the LLM generator nor the template generators have run; compile
\* never waits for the LLM generator on such a source.
C15_ErrorsStopGeneration ==
  (pc = "done" /\ run = 2 /\ \E i \in DOMAIN diagnostics : diagnostics[i].severity = "error") =>
    /\ compilePc \in {"analyzeCore", "returned"}
    /\ files = <<>>
    /\ called = {}
    /\ (Compiled => compileDiagnostics = diagnostics)

\* compile has returned on a source whose core analysis reports an error
\* and a warning
C15_Witness ==
  /\ Compiled
  /\ \E i \in DOMAIN diagnostics : diagnostics[i].severity = "error"
  /\ \E i \in DOMAIN diagnostics : diagnostics[i].severity = "warning"
  /\ compileDiagnostics = diagnostics
  /\ files = <<>>


\* C16: analyze returns an empty diagnostic list if and only if no concept
\* name is defined more than once, every referenced name is defined, and
\* every defined name is referenced at least once.
C16_NoDiagnosticsIffValid ==
  pc = "done" =>
    ( diagnostics = <<>>
      <=> /\ \A n \in ConceptNames : Cardinality(DefinitionsOf(n)) = 1
          /\ ReferencedNames \subseteq ConceptNames
          /\ ConceptNames \subseteq ReferencedNames )

\* analyze has returned no diagnostic for a document of two concepts
C16_Witness ==
  /\ pc = "done"
  /\ diagnostics = <<>>
  /\ Cardinality(ConceptNames) >= 2

\* analyze has returned diagnostics for a document in which only one of the
\* three conditions fails: a defined name is never referenced
C16_WitnessUnused ==
  /\ pc = "done"
  /\ diagnostics # <<>>
  /\ \A n \in ConceptNames : Cardinality(DefinitionsOf(n)) = 1
  /\ ReferencedNames \subseteq ConceptNames
  /\ ReferencedNames # {}


\* document order of two reference sites: concept, then prose block, then
\* index in the block
SiteBefore(s, t) ==
  \/ s[1] < t[1]
  \/ s[1] = t[1] /\ s[2] < t[2]
  \/ s[1] = t[1] /\ s[2] = t[2] /\ s[3] < t[3]

\* the sites that reference name n, the k-th of them in document order, and
\* the first
SitesOf(n) == { site \in RefSites : RefAt(site).name = n }
SiteOf(n, k) ==
  CHOOSE s \in SitesOf(n) : Cardinality({ t \in SitesOf(n) : SiteBefore(t, s) }) = k - 1
FirstSiteOf(n) == SiteOf(n, 1)

RECURSIVE SumOfLengths(_, _)
SumOfLengths(m, i) ==
  IF i > Len(m) THEN 0 ELSE Len(m[i].value) + SumOfLengths(m, i + 1)

\* C17: the references map returned by getReferences has one key for each
\* name referenced at least once and no other key, the keys in the order of
\* their first reference; the list of a name holds all its references in
\* document order; the lengths of the lists sum to the number of references
\* of the document.
C17_ReferencesMap ==
  pc = "done" =>
    /\ { references[i].key : i \in DOMAIN references } = ReferencedNames
    /\ \A i, j \in DOMAIN references :
         i < j => /\ references[i].key # references[j].key
                  /\ SiteBefore(FirstSiteOf(references[i].key), FirstSiteOf(references[j].key))
    /\ \A i \in DOMAIN references :
         LET n == references[i].key
             list == references[i].value
         IN /\ Len(list) = Cardinality(SitesOf(n))
            /\ \A k \in DOMAIN list : list[k] = RefAt(SiteOf(n, k))
    /\ SumOfLengths(references, 1) = Cardinality(RefSites)

\* getReferences has returned a map of two names, one of them referenced
\* twice, for a document with a concept that is never referenced
C17_Witness ==
  /\ pc = "done"
  /\ Len(references) >= 2
  /\ \E i \in DOMAIN references : Len(references[i].value) >= 2
  /\ \E n \in ConceptNames : ~ MapHas(references, n)


\* the Levenshtein edit distance of two strings: the least number of
\* insertions, deletions and substitutions of one character that turn one
\* into the other
RECURSIVE EditDistance(_, _)
EditDistance(a, b) ==
  IF a = <<>> THEN Len(b)
  ELSE IF b = <<>> THEN Len(a)
  ELSE LET deletion == EditDistance(Tail(a), b) + 1
           insertion == EditDistance(a, Tail(b)) + 1
           substitution == EditDistance(Tail(a), Tail(b)) + (IF Head(a) = Head(b) THEN 0 ELSE 1)
       IN Min2(deletion, Min2(insertion, substitution))

\* C18: levenshteinDistance(a, b) is the Levenshtein edit distance of a and
\* b, insertion, deletion and substitution costing 1 each; in particular
\* it is 0 for b = a, the length of a for b = "", and the same for (b, a).
C18_Levenshtein ==
  pc = "returned" =>
    /\ levResult = EditDistance(levA, levB)
    /\ (levA = levB => levResult = 0)
    /\ (levB = <<>> => levResult = Len(levA))
    /\ levResult = levenshteinDistance(levB, levA)

\* levenshteinDistance has returned for two strings of full length that
\* differ in more than one place, with a result below that length
C18_Witness ==
  /\ pc = "returned"
  /\ Len(levA) = MaxStrLen /\ Len(levB) = MaxStrLen
  /\ levResult >= 2 /\ levResult < MaxStrLen

\* levenshteinDistance has returned for a string and the empty string
C18_WitnessEmpty ==
  /\ pc = "returned"
  /\ levA # <<>> /\ levB = <<>>
  /\ levResult = Len(levA)


\* the characters the lexer skips at the start of a line
LeadingWhitespace == {" ", "\t", "\r"}

\* offset o is the start of a line of the source
AtLineStart(o) == o = 0 \/ source[o] = "\n"

\* C19: no token has its end before its start, no token starts before the
\* end of the token before it, and the source characters between two
\* consecutive tokens are spaces, tabs or carriage returns that begin at
\* the start of a line.
C19_TokensInOrder ==
  /\ \A i \in DOMAIN tokens : tokens[i].start.offset <= tokens[i].end.offset
  /\ \A i \in 1..(Len(tokens) - 1) :
       LET gapStart == tokens[i].end.offset
           gapEnd == tokens[i + 1].start.offset
       IN /\ gapStart <= gapEnd
          /\ \A o \in (gapStart + 1)..gapEnd : source[o] \in LeadingWhitespace
          /\ (gapStart < gapEnd => AtLineStart(gapStart))

\* tokenize has returned tokens with a tab or a carriage return between two
\* of them, and a Text token that holds a space, a tab or a carriage return
C19_Witness ==
  /\ Tokenized
  /\ \E i \in 1..(Len(tokens) - 1) :
       \E o \in (tokens[i].end.offset + 1)..tokens[i + 1].start.offset :
         source[o] \in {"\t", "\r"}
  /\ \E i \in DOMAIN tokens :
       tokens[i].type = "Text" /\ \E k \in DOMAIN tokens[i].value : tokens[i].value[k] \in LeadingWhitespace

\* the lines of the source, and the characters of line l other than its '\n'
SourceLines == 1..SourceLine(Len(source))
LineCharacters(l) ==
  { o \in 1..Len(source) : SourceLine(o - 1) = l /\ source[o] # "\n" }

\* the tokens that start on line l, and the first of them
TokensOfLine(l) == { i \in DOMAIN tokens : tokens[i].start.line = l }
FirstTokenOfLine(i) == \A j \in TokensOfLine(tokens[i].start.line) : i <= j

\* C20: the tokens of a line made only of spaces, tabs and carriage returns
\* are its Newline token or the EOF token, and a Text token that is the
\* first token of its line does not begin with a space, a tab or a carriage
\* return.
C20_LeadingWhitespaceSkipped ==
  Tokenized =>
    /\ \A l \in SourceLines :
         (\A o \in LineCharacters(l) : source[o] \in LeadingWhitespace) =>
           /\ \A i \in TokensOfLine(l) : tokens[i].type \in {"Newline", "EOF"}
           /\ Cardinality(TokensOfLine(l)) = 1
    /\ \A i \in DOMAIN tokens :
         (tokens[i].type = "Text" /\ FirstTokenOfLine(i)) =>
           /\ tokens[i].value # <<>>
           /\ tokens[i].value[1] \notin LeadingWhitespace

\* tokenize has returned on a source with a line made of a tab or a carriage
\* return and more, and a Text token that is the first of its line and
\* starts after skipped whitespace
C20_Witness ==
  /\ Tokenized
  /\ \E l \in SourceLines :
       /\ \A o \in LineCharacters(l) : source[o] \in LeadingWhitespace
       /\ \E o \in LineCharacters(l) : source[o] \in {"\t", "\r"}
       /\ Cardinality(LineCharacters(l)) >= 2
  /\ \E i \in DOMAIN tokens :
       tokens[i].type = "Text" /\ FirstTokenOfLine(i) /\ tokens[i].start.column >= 2


\* C21: a Text token has a value that is not empty and holds no '\n', the
\* characters of the source from its start to its end, and the character
\* of the source after it is '\n' or the end of the input.
C21_TextToEndOfLine ==
  \A i \in DOMAIN tokens :
    tokens[i].type = "Text" =>
      /\ tokens[i].value # <<>>
      /\ \A k \in DOMAIN tokens[i].value : tokens[i].value[k] # "\n"
      /\ tokens[i].value = SubSeq(source, tokens[i].start.offset + 1, tokens[i].end.offset)
      /\ \/ tokens[i].end.offset = Len(source)
         \/ source[tokens[i].end.offset + 1] = "\n"

\* tokenize has returned a Text token that holds a concept marker after its
\* first character and is followed by a '\n'
C21_Witness ==
  /\ Tokenized
  /\ \E i \in DOMAIN tokens :
       /\ tokens[i].type = "Text"
       /\ \E k \in 2..(Len(tokens[i].value) - 1) :
            tokens[i].value[k] = "@" /\ IsUpper(tokens[i].value[k + 1])
       /\ tokens[i].end.offset < Len(source)


\* the 1-indexed line and column of the position asked for
FindLine == findPosition.line + 1
FindColumn == findPosition.character + 1

\* the position asked for is on a character of the '@Name' text of concept k
OnMarker(k) ==
  LET start == Concepts[k].location.range.start
  IN /\ FindLine = start.line
     /\ FindColumn >= start.column
     /\ FindColumn <= start.column + Len(Concepts[k].name)

\* the position asked for is on a character of the reference at a site
OnReference(site) ==
  LET range == RefAt(site).location.range
  IN /\ FindLine = range.start.line
     /\ FindColumn >= range.start.column
     /\ FindColumn < range.end.column

\* C22: for a position on the '@Name' text of a concept,
\* findConceptAtPosition returns a definition with that concept's name, and
\* for a position inside the range of a reference it returns a reference
\* with that reference's name.
C22_FindConceptAtPosition ==
  pc = "found" =>
    /\ \A k \in DOMAIN Concepts :
         OnMarker(k) =>
           /\ findResult # << >>
           /\ findResult[1].type = "definition"
           /\ findResult[1].name = Concepts[k].name
    /\ \A site \in RefSites :
         OnReference(site) =>
           /\ findResult # << >>
           /\ findResult[1].type = "reference"
           /\ findResult[1].name = RefAt(site).name


\* C23: the document cache has an entry for a URI exactly when the last
\* event of that URI was an open or a change, the entry is the parse result
\* of the latest text of the document, and no URI has two entries; after a
\* close the URI has no entry.
C23_DocumentCache ==
  /\ \A uri \in Uris :
       /\ MapHas(documentCache, uri) <=> lastEvent[uri] \in {"open", "change"}
       /\ (lastEvent[uri] \in {"open", "change"} =>
             /\ documents[uri] # << >>
             /\ MapGet(documentCache, uri) = << parse(documents[uri][1]) >>)
       /\ (lastEvent[uri] = "close" => MapGet(documentCache, uri) = << >>)
  /\ \A i, j \in DOMAIN documentCache :
       documentCache[i].key = documentCache[j].key => i = j

\* one document was changed to a text with a concept and is cached, the
\* other was opened and closed and is not
C23_Witness ==
  \E uri, other \in Uris :
    /\ lastEvent[uri] = "change"
    /\ lastEvent[other] = "close"
    /\ MapHas(documentCache, uri)
    /\ MapGet(documentCache, uri)[1].concepts # <<>>
    /\ ~ MapHas(documentCache, other)


\* the diagnostics compile added to those of the core analysis
AddedDiagnostics ==
  SubSeq(compileDiagnostics, Len(diagnostics) + 1, Len(compileDiagnostics))

AddedWith(severity) ==
  { i \in DOMAIN AddedDiagnostics : AddedDiagnostics[i].severity = severity }

\* the paths template-based generation writes for the parsed document
TemplatePaths ==
  {"package.json", "tsconfig.json", "README.md", ".gitignore"}
  \cup (IF \E k \in DOMAIN Concepts : ~ isAPIDefinition(Concepts[k].name)
        THEN {"src/types.ts", "src/schemas.ts"} ELSE {})
  \cup (IF \E k \in DOMAIN Concepts :
             /\ isAPIDefinition(Concepts[k].name)
             /\ extractRoutes(Concepts[k]) # <<>>
        THEN {"src/routes.ts", "src/index.ts"} ELSE {})

FilePaths == { files[i].key : i \in DOMAIN files }

\* which way compile went
LLMConfigured == "generateWithLLM" \in called
TemplatesRan == "templateBasedGeneration" \in called

\* C24: compile is never left by an exception: it is in its core analysis,
\* waits for the LLM generation, or has returned.  When it has returned
\* for core diagnostics without an error, its diagnostics are the core
\* diagnostics followed by its own, of which at most one is an error, the
\* last one, added by the catch; without such an error, a rejected LLM
\* generation has added exactly one warning and the files are those of the
\* template-based generation, and without an LLM configuration there is no
\* warning and the files are those of the template-based generation; an
\* LLM generation that resolved has added neither a warning nor an error.
C24_CompileNeverRejects ==
  /\ compilePc \in {"analyzeCore", "generateWithLLM", "returned"}
  /\ (Compiled /\ ~ \E i \in DOMAIN diagnostics : diagnostics[i].severity = "error") =>
       /\ SubSeq(compileDiagnostics, 1, Len(diagnostics)) = diagnostics
       /\ Cardinality(AddedWith("error")) <= 1
       /\ AddedWith("error") \subseteq {Len(AddedDiagnostics)}
       /\ (LLMConfigured /\ TemplatesRan) => Cardinality(AddedWith("warning")) = 1
       /\ (LLMConfigured /\ ~ TemplatesRan) =>
            /\ AddedWith("warning") = {} /\ AddedWith("error") = {}
            /\ files \in LLMFiles
       /\ (~ LLMConfigured) => TemplatesRan /\ AddedWith("warning") = {}
       /\ (TemplatesRan /\ AddedWith("error") = {}) =>
            /\ FilePaths = TemplatePaths
            /\ Len(files) = Cardinality(TemplatePaths)
       /\ (TemplatesRan /\ AddedWith("error") # {}) => FilePaths \subseteq TemplatePaths

\* compile has returned after a rejected LLM generation, with the files of
\* the template-based generation for a document with a concept
C24_Witness ==
  /\ Compiled
  /\ LLMConfigured /\ TemplatesRan
  /\ AddedWith("warning") # {} /\ AddedWith("error") = {}
  /\ "src/types.ts" \in FilePaths /\ "package.json" \in FilePaths

\* compile has returned after an exception of the template-based
\* generation, with an error diagnostic of its own
C24_WitnessCaught ==
  /\ Compiled
  /\ ~ LLMConfigured /\ TemplatesRan
  /\ AddedWith("error") # {}


\* the parser has returned
SectionParsed == pc = "ParseResult"

\* the concepts of the parse result, in the order of the sections
RECURSIVE ConceptsFrom(_, _)
ConceptsFrom(sections, i) ==
  IF i > Len(sections) THEN <<>>
  ELSE sections[i].concepts \o ConceptsFrom(sections, i + 1)

ParsedConcepts == ConceptsFrom(ast.sections, 1)

\* the 0-indexed line and character of index i of the text
TextLine(i) == Cardinality({ j \in 1..(i - 1) : parserText[j] = "\n" })
TextCharacter(i) ==
  LET newlines == { j \in 1..(i - 1) : parserText[j] = "\n" }
  IN i - 1 - (IF newlines = {} THEN 0 ELSE Nth(newlines, Cardinality(newlines)))

\* the indices of the text at which an '@' followed by an uppercase letter
\* is the first character of its line
LineStartMarkers ==
  { i \in 1..(Len(parserText) - 1) :
      /\ parserText[i] = "@" /\ IsUpper(parserText[i + 1])
      /\ (i = 1 \/ parserText[i - 1] = "\n") }

\* C25: an '@Name' at the start of a line is a concept of type definition
\* in the parse result, whichever line of its section it is on.
C25_LineStartIsDefinition ==
  SectionParsed =>
    \A i \in LineStartMarkers :
      \E k \in DOMAIN ParsedConcepts :
        /\ ParsedConcepts[k].position.start = [line |-> TextLine(i), character |-> 0]
        /\ ParsedConcepts[k].type = "definition"

\* the lines of the text, 0-indexed
TextLines == splitLines(parserText)

\* the section is the lines from its start line to its end line, none of
\* them blank, and its range ends after the last of them
SectionOfLines(section) ==
  LET first == section.range.start.line
      last == section.range.end.line
  IN /\ 0 <= first /\ first <= last /\ last < Len(TextLines)
     /\ \A l \in first..last : trim(TextLines[l + 1]) # <<>>
     /\ section.text = joinLines([k \in 1..(last - first + 1) |-> TextLines[first + k]])
     /\ section.range.start.character = 0
     /\ section.range.end.character = Len(TextLines[last + 1])

C30_WitnessLines ==
  /\ SectionParsed
  /\ \E k \in DOMAIN ast.sections :
       ast.sections[k].range.start.line < ast.sections[k].range.end.line

\* the phase of analyze that pushes a diagnostic of the code
PhaseOf(code) ==
  CASE code = "duplicate-definition" -> 1
    [] code = "undefined-reference" -> 2
    [] code = "unused-concept" -> 3

\* the definitions after the first one of their name, the undefined names
\* and the names nothing references
LaterDefinitions == { c \in DOMAIN Concepts : c # FirstDefinitionOf(Concepts[c].name) }
UndefinedNames == ReferencedNames \ ConceptNames
UnusedNames == ConceptNames \ ReferencedNames

\* the k-th diagnostic with the code
DiagnosticWith(code, k) == diagnostics[Nth(DiagnosticsWith(code), k)]

C26_WitnessNames ==
  /\ pc = "done"
  /\ Cardinality(UndefinedNames) >= 2

\* the names suggested by the undefined-reference diagnostic
SuggestedBy(d) == { d.message[3][k] : k \in DOMAIN d.message[3] }

DefinitionKeys == { definitions[k].key : k \in DOMAIN definitions }

\* C27: no name has both an undefined-reference and an unused-concept
\* diagnostic, an undefined name being no key of the definitions map and an
\* unused one being a key; every name with a duplicate-definition
\* diagnostic is a key of the definitions map; every suggested name is a key
\* of the definitions map and not the undefined name.
C27_DiagnosticsConsistent ==
  pc = "done" =>
    /\ \A i \in DiagnosticsWith("undefined-reference") :
         /\ diagnostics[i].message[2] \notin DefinitionKeys
         /\ DiagnosticsAbout("unused-concept", diagnostics[i].message[2]) = {}
         /\ \A n \in SuggestedBy(diagnostics[i]) :
              n \in DefinitionKeys /\ n # diagnostics[i].message[2]
    /\ \A i \in DiagnosticsWith("unused-concept") :
         diagnostics[i].message[2] \in DefinitionKeys
    /\ \A i \in DiagnosticsWith("duplicate-definition") :
         diagnostics[i].message[2] \in DefinitionKeys

\* analyze has returned an undefined-reference error with a suggestion,
\* for a document with an unused concept
C27_Witness ==
  /\ pc = "done"
  /\ \E i \in DiagnosticsWith("undefined-reference") : SuggestedBy(diagnostics[i]) # {}
  /\ DiagnosticsWith("unused-concept") # {}

\* analyze has returned a duplicate-definition error
C27_WitnessDuplicate ==
  /\ pc = "done"
  /\ DiagnosticsWith("duplicate-definition") # {}
  /\ DiagnosticsWith("undefined-reference") # {}

\* the diagnostics of the parser among those last sent for the document
SentStatic(uri) ==
  SelectSeq(sentDiagnostics[uri][1], LAMBDA d : d.source = "natural-static")

\* C28: the diagnostics last sent for an open document are those of its
\* latest text, whatever the order of changes, timer firings and answers of
\* the LLM.
C28_LatestTextPublished ==
  \A uri \in Uris :
    (textDocuments[uri] # << >> /\ sentDiagnostics[uri] # << >>) =>
      SentStatic(uri) = staticDiagnostics(textDocuments[uri][1])

\* the indices of the console lines with the message
Logged(message) == { k \in DOMAIN console : console[k] = message }

ValidateSettled == validatorPc \in {"returned", "rejected"}

\* the attempts, installs, fix steps and returns of validate, read from the
\* console and the fields of the call
ValidateBounded ==
  /\ attempt <= maxRetries
  /\ Cardinality(Logged("Validation attempt")) = attempt
  /\ Logged("Installing dependencies...") \subseteq {2}
  /\ Cardinality(Logged("Attempting to fix errors with LLM...")) <= maxRetries - 1
  /\ \A k \in Logged("Attempting to fix errors with LLM...") :
       /\ console[k - 1] = "TypeScript validation failed"
       /\ Cardinality({ j \in Logged("Validation attempt") : j < k }) < maxRetries
  /\ \A k \in Logged("TypeScript validation failed") :
       Cardinality({ j \in Logged("Validation attempt") : j < k }) < maxRetries
         => (k < Len(console) /\ console[k + 1] = "Attempting to fix errors with LLM...")
  /\ \A k \in Logged("TypeScript validation passed!") :
       /\ k = Len(console)
       /\ validatorPc = "returned"
       /\ validateResult = << [success |-> TRUE, errors |-> <<>>] >>
  /\ validatorPc = "returned" =>
       IF tscResult.success
       THEN /\ validateResult = << [success |-> TRUE, errors |-> <<>>] >>
            /\ console[Len(console)] = "TypeScript validation passed!"
       ELSE /\ attempt = maxRetries
            /\ validateResult = << [success |-> FALSE, errors |-> tscResult.errors] >>
            /\ console[Len(console)] = "TypeScript validation failed"
            /\ Logged("TypeScript validation passed!") = {}

\* C29: validate settles after at most maxRetries attempts; it returns
\* success at the first check that passes; the fix step follows exactly the
\* failed checks before the last attempt, at most maxRetries - 1 times; npm
\* install runs on attempt 1 only; after the failed check of the last
\* attempt validate returns success = false with the errors of that check.
C29_ValidateTerminates == []ValidateBounded /\ <>ValidateSettled

\* validate has returned the errors of the third attempt after two fix steps
C29_Witness ==
  /\ validatorPc = "returned"
  /\ validateResult # << >> /\ ~ validateResult[1].success
  /\ validateResult[1].errors # <<>>
  /\ attempt = 3
  /\ Cardinality(Logged("Attempting to fix errors with LLM...")) = 2

\* validate has returned success at its second attempt
C29_WitnessSuccess ==
  /\ validatorPc = "returned"
  /\ validateResult # << >> /\ validateResult[1].success
  /\ attempt = 2 /\ maxRetries = 3

====
